---- MODULE Spec2Model ----
(***************************************************************************)
(* A model of the UCP commerce demo: the checkout-session state machine    *)
(* (server/checkout.py), the function dispatcher execute_ucp_function and  *)
(* the orchestration loop process_chat_message (server/ai_agent.py), and   *)
(* the HTTP handlers that reach the session store (server/app.py).         *)
(*                                                                         *)
(* Conventions.  An Optional value is a sequence of length at most one:    *)
(* None is << >> and a present value x is << x >>.  A Python function that *)
(* may raise is an operator returning a record with a field "raised"; the  *)
(* record also carries the state as the function left it, because the      *)
(* sessions are mutated in place before an exception propagates.           *)
(***************************************************************************)
EXTENDS Integers, Sequences, FiniteSets, TLC

(***************************************************************************)
(* Bounds of the model.                                                    *)
(***************************************************************************)
\* tool calls the model requests in one turn, over all its replies
MaxCalls == 6
\* tool calls in one model reply
MaxPerReply == 2
\* chat turns served when turns follow one another
MaxTurns == 4
\* HTTP requests served on the checkout-session endpoints
MaxRequests == 3
\* tool calls dispatched in a turn whose tool calls may fail
MaxFailingCalls == 5
\* prior turns in a conversation history
MaxHistory == 12

None == << >>
Some(x) == << x >>

(***************************************************************************)
(* The catalog (server/products.py).  products.json is data outside the    *)
(* source; two products stand for it, one whose price is a multiple of 100 *)
(* and one whose percentage discounts are not whole.                       *)
(***************************************************************************)
PRODUCT_CATALOG == [P1 |-> 1000, P2 |-> 45]

CatalogIds == DOMAIN PRODUCT_CATALOG

\* a product id no catalog entry has
UnknownProduct == "PX"

ProductIds == CatalogIds \cup {UnknownProduct}

\* get_product: the product (here its price) or None
get_product(product_id) ==
    IF product_id \in CatalogIds THEN Some(PRODUCT_CATALOG[product_id]) ELSE None

(***************************************************************************)
(* Arithmetic of Python.                                                   *)
(***************************************************************************)
\* int(n / d) for d > 0: true division, then truncation toward zero
IntTruncDiv(n, d) == IF n >= 0 THEN n \div d ELSE 0 - ((0 - n) \div d)

\* the mathematical floor of n / d, for d > 0
FloorDiv(n, d) == n \div d

Max(a, b) == IF a >= b THEN a ELSE b

RECURSIVE SumSeq(_)
SumSeq(s) == IF s = << >> THEN 0 ELSE Head(s) + SumSeq(Tail(s))

Range(s) == {s[i] : i \in 1..Len(s)}

(***************************************************************************)
(* CheckoutSession (server/checkout.py).                                   *)
(***************************************************************************)
\* CheckoutSession.__init__
NewSession(session_id) ==
    [id |-> session_id,
     line_items |-> << >>,
     buyer |-> None,
     status |-> "draft",
     codes |-> << >>,
     applied |-> << >>]

\* CheckoutSession.add_line_item
add_line_item(session, product_id, quantity) ==
    LET product == get_product(product_id) IN
    IF product = None
    THEN [raised |-> TRUE, error |-> "NotFound", session |-> session]
    ELSE LET subtotal == product[1] * quantity
             line_item == [item |-> product_id,
                           price |-> product[1],
                           quantity |-> quantity,
                           subtotal |-> subtotal,
                           total |-> subtotal]
         IN [raised |-> FALSE, error |-> "",
             session |-> [session EXCEPT !.line_items = Append(@, line_item)]]

\* update_line_item that sets the quantity and leaves the totals
update_line_item_stale(session, line_item_id, quantity) ==
    IF line_item_id \notin 1..Len(session.line_items)
    THEN [raised |-> TRUE, error |-> "NotFound", session |-> session]
    ELSE IF quantity = None
    THEN [raised |-> FALSE, error |-> "", session |-> session]
    ELSE [raised |-> FALSE, error |-> "",
          session |-> [session EXCEPT !.line_items[line_item_id].quantity = quantity[1]]]

\* CheckoutSession.update_line_item; quantity is Optional.  The id of a line
\* item is a uuid4 of its own: here its place in the list, and any other
\* number an id no line item of the session has.
update_line_item(session, line_item_id, quantity) ==
    IF line_item_id \notin 1..Len(session.line_items)
    THEN [raised |-> TRUE, error |-> "NotFound", session |-> session]
    ELSE IF quantity = None
    THEN [raised |-> FALSE, error |-> "", session |-> session]
    ELSE LET item == session.line_items[line_item_id]
             subtotal == item.price * quantity[1]
         IN [raised |-> FALSE, error |-> "",
             session |-> [session EXCEPT
                            !.line_items[line_item_id] =
                                [item EXCEPT !.quantity = quantity[1],
                                             !.subtotal = subtotal,
                                             !.total = subtotal]]]

\* the compiled-in discount table of CheckoutSession.apply_discount
DISCOUNTS ==
    [TenOff   |-> [code |-> "10OFF", kind |-> "percent", value |-> 10],
     Save20   |-> [code |-> "SAVE20", kind |-> "percent", value |-> 20],
     FreeShip |-> [code |-> "FREESHIP", kind |-> "amount", value |-> 500]]

DiscountCodes == {DISCOUNTS[k].code : k \in DOMAIN DISCOUNTS}

discount_info(code) ==
    CHOOSE d \in {DISCOUNTS[k] : k \in DOMAIN DISCOUNTS} : d.code = code

\* sum(item.totals[0].amount for item in self.line_items)
LineItemsSubtotal(line_items) ==
    SumSeq([i \in 1..Len(line_items) |-> line_items[i].subtotal])

\* the amount with the percentage taken for an amount
discount_amount_flat(code, subtotal) == discount_info(code).value

\* the amount CheckoutSession.apply_discount computes for a code of the table
discount_amount(code, subtotal) ==
    IF discount_info(code).kind = "percent"
    THEN IntTruncDiv(subtotal * discount_info(code).value, 100)
    ELSE discount_info(code).value

\* apply_discount with the code recorded before the table is consulted
apply_discount_recording_first(session, discount_code) ==
    IF discount_code \notin DiscountCodes
    THEN [raised |-> TRUE, error |-> "InvalidArgument",
          session |-> [session EXCEPT !.codes = Append(@, discount_code)]]
    ELSE LET subtotal == LineItemsSubtotal(session.line_items)
             amount == discount_amount(discount_code, subtotal)
             codes == IF discount_code \in Range(session.codes)
                      THEN session.codes
                      ELSE Append(session.codes, discount_code)
         IN [raised |-> FALSE, error |-> "",
             session |-> [session EXCEPT
                            !.codes = codes,
                            !.applied = << [code |-> discount_code, amount |-> amount] >>]]

\* apply_discount with the discount appended to the applied list
apply_discount_stacking(session, discount_code) ==
    IF discount_code \notin DiscountCodes
    THEN [raised |-> TRUE, error |-> "InvalidArgument", session |-> session]
    ELSE LET subtotal == LineItemsSubtotal(session.line_items)
             amount == discount_amount(discount_code, subtotal)
             codes == IF discount_code \in Range(session.codes)
                      THEN session.codes
                      ELSE Append(session.codes, discount_code)
         IN [raised |-> FALSE, error |-> "",
             session |-> [session EXCEPT
                            !.codes = codes,
                            !.applied = Append(@, [code |-> discount_code,
                                                   amount |-> amount])]]

\* CheckoutSession.apply_discount
apply_discount(session, discount_code) ==
    IF discount_code \notin DiscountCodes
    THEN [raised |-> TRUE, error |-> "InvalidArgument", session |-> session]
    ELSE LET subtotal == LineItemsSubtotal(session.line_items)
             amount == discount_amount(discount_code, subtotal)
             codes == IF discount_code \in Range(session.codes)
                      THEN session.codes
                      ELSE Append(session.codes, discount_code)
         IN [raised |-> FALSE, error |-> "",
             session |-> [session EXCEPT
                            !.codes = codes,
                            !.applied = << [code |-> discount_code, amount |-> amount] >>]]

\* CheckoutSession.calculate_totals
calculate_totals(session) ==
    LET subtotal == LineItemsSubtotal(session.line_items)
        discounts == [i \in 1..Len(session.applied) |-> session.applied[i].amount]
        discount_total == SumSeq(discounts)
    IN [subtotal |-> subtotal,
        discounts |-> discounts,
        total |-> Max(0, subtotal - discount_total)]

\* CheckoutSession.set_buyer
set_buyer(session, buyer) == [session EXCEPT !.buyer = Some(buyer)]

\* CheckoutSession.to_ucp_response followed by make_json_serializable: the
\* checkout-session reference a caller holds (a snapshot, not the session)
to_ucp_response(session) ==
    [id |-> session.id,
     status |-> session.status,
     total |-> calculate_totals(session).total]

(***************************************************************************)
(* The session store _checkout_sessions and its functions                  *)
(* (server/checkout.py).  A store is a function from session ids to        *)
(* sessions.  uuid4 ids are fresh; the n-th session created gets id n.     *)
(* A request's line item is a record [id, quantity].                       *)
(***************************************************************************)
\* str(uuid.uuid4()): an id no stored session has
fresh_session_id(store) == Cardinality(DOMAIN store) + 1

\* for item in line_items: session.add_line_item(...), up to the first raise
RECURSIVE add_line_items(_, _)
add_line_items(session, line_items) ==
    IF line_items = << >>
    THEN [raised |-> FALSE, error |-> "", session |-> session]
    ELSE LET r == add_line_item(session, Head(line_items).id, Head(line_items).quantity)
         IN IF r.raised THEN r ELSE add_line_items(r.session, Tail(line_items))

\* the loop over the codes that stops at the first invalid one
RECURSIVE apply_codes_until_invalid(_, _)
apply_codes_until_invalid(session, codes) ==
    IF codes = << >> \/ Head(codes) \notin DiscountCodes
    THEN session
    ELSE apply_codes_until_invalid(apply_discount(session, Head(codes)).session,
                                   Tail(codes))

\* for code in discounts["codes"]: try session.apply_discount(code)
\* except ValueError: pass
RECURSIVE apply_codes(_, _)
apply_codes(session, codes) ==
    IF codes = << >>
    THEN session
    ELSE apply_codes(apply_discount(session, Head(codes)).session, Tail(codes))

\* get_checkout_session
get_checkout_session(store, session_id) ==
    IF session_id \in DOMAIN store THEN Some(store[session_id]) ELSE None

\* the store with the session put under its id
put_session(store, session) ==
    [i \in DOMAIN store \cup {session.id} |->
        IF i = session.id THEN session ELSE store[i]]

\* create_checkout_session without the assignment of the status
create_checkout_session_draft(store, line_items, buyer) ==
    LET session_id == fresh_session_id(store)
        added == add_line_items(NewSession(session_id), line_items)
    IN IF added.raised
       THEN [raised |-> TRUE, error |-> added.error, store |-> store, id |-> 0]
       ELSE LET session == IF buyer # None
                           THEN set_buyer(added.session, buyer[1])
                           ELSE added.session
            IN [raised |-> FALSE, error |-> "",
                store |-> put_session(store, session), id |-> session_id]

\* create_checkout_session with the session stored before its line items
\* are added
create_checkout_session_storing_first(store, line_items, buyer) ==
    LET session_id == fresh_session_id(store)
        added == add_line_items(NewSession(session_id), line_items)
    IN IF added.raised
       THEN [raised |-> TRUE, error |-> added.error,
             store |-> put_session(store, added.session), id |-> 0]
       ELSE LET with_buyer == IF buyer # None
                              THEN set_buyer(added.session, buyer[1])
                              ELSE added.session
                session == [with_buyer EXCEPT !.status = "ready_for_complete"]
            IN [raised |-> FALSE, error |-> "",
                store |-> put_session(store, session), id |-> session_id]

\* create_checkout_session(line_items, currency, buyer); buyer is Optional
create_checkout_session(store, line_items, buyer) ==
    LET session_id == fresh_session_id(store)
        added == add_line_items(NewSession(session_id), line_items)
    IN IF added.raised
       THEN [raised |-> TRUE, error |-> added.error, store |-> store, id |-> 0]
       ELSE LET with_buyer == IF buyer # None
                              THEN set_buyer(added.session, buyer[1])
                              ELSE added.session
                session == [with_buyer EXCEPT !.status = "ready_for_complete"]
            IN [raised |-> FALSE, error |-> "",
                store |-> put_session(store, session), id |-> session_id]

\* update_checkout_session that adds the line items of the request to
\* those the session has
update_checkout_session_appending(store, session_id, line_items, discounts, buyer) ==
    IF get_checkout_session(store, session_id) = None
    THEN [raised |-> TRUE, error |-> "NotFound", store |-> store, id |-> 0]
    ELSE LET session == store[session_id]
             replaced == IF line_items # None /\ line_items[1] # << >>
                         THEN add_line_items(session, line_items[1])
                         ELSE [raised |-> FALSE, error |-> "", session |-> session]
         IN IF replaced.raised
            THEN [raised |-> TRUE, error |-> replaced.error,
                  store |-> put_session(store, replaced.session), id |-> 0]
            ELSE LET discounted == IF discounts # None
                                   THEN apply_codes(replaced.session, discounts[1])
                                   ELSE replaced.session
                     updated == IF buyer # None
                                THEN set_buyer(discounted, buyer[1])
                                ELSE discounted
                 IN [raised |-> FALSE, error |-> "",
                     store |-> put_session(store, updated), id |-> session_id]

\* update_checkout_session that puts the session it updated back to
\* ready_for_complete
update_checkout_session_reopening(store, session_id, line_items, discounts, buyer) ==
    IF get_checkout_session(store, session_id) = None
    THEN [raised |-> TRUE, error |-> "NotFound", store |-> store, id |-> 0]
    ELSE LET session == store[session_id]
             replaced == IF line_items # None /\ line_items[1] # << >>
                         THEN add_line_items([session EXCEPT !.line_items = << >>],
                                             line_items[1])
                         ELSE [raised |-> FALSE, error |-> "", session |-> session]
         IN IF replaced.raised
            THEN [raised |-> TRUE, error |-> replaced.error,
                  store |-> put_session(store, replaced.session), id |-> 0]
            ELSE LET discounted == IF discounts # None
                                   THEN apply_codes(replaced.session, discounts[1])
                                   ELSE replaced.session
                     updated == IF buyer # None
                                THEN set_buyer(discounted, buyer[1])
                                ELSE discounted
                 IN [raised |-> FALSE, error |-> "",
                     store |-> put_session(store, [updated EXCEPT
                                                     !.status = "ready_for_complete"]),
                     id |-> session_id]

\* update_checkout_session that replaces the line items whenever a list is
\* given, an empty one too ("if line_items is not None")
update_checkout_session_clearing(store, session_id, line_items, discounts, buyer) ==
    IF get_checkout_session(store, session_id) = None
    THEN [raised |-> TRUE, error |-> "NotFound", store |-> store, id |-> 0]
    ELSE LET session == store[session_id]
             replaced == IF line_items # None
                         THEN add_line_items([session EXCEPT !.line_items = << >>],
                                             line_items[1])
                         ELSE [raised |-> FALSE, error |-> "", session |-> session]
         IN IF replaced.raised
            THEN [raised |-> TRUE, error |-> replaced.error,
                  store |-> put_session(store, replaced.session), id |-> 0]
            ELSE LET discounted == IF discounts # None
                                   THEN apply_codes(replaced.session, discounts[1])
                                   ELSE replaced.session
                     updated == IF buyer # None
                                THEN set_buyer(discounted, buyer[1])
                                ELSE discounted
                 IN [raised |-> FALSE, error |-> "",
                     store |-> put_session(store, updated), id |-> session_id]

\* update_checkout_session(session_id, line_items, discounts, buyer); the
\* three arguments are Optional, discounts being the list discounts["codes"].
\* The session is mutated in place, so what was done before a raise stays.
update_checkout_session(store, session_id, line_items, discounts, buyer) ==
    IF get_checkout_session(store, session_id) = None
    THEN [raised |-> TRUE, error |-> "NotFound", store |-> store, id |-> 0]
    ELSE LET session == store[session_id]
             replaced == IF line_items # None /\ line_items[1] # << >>
                         THEN add_line_items([session EXCEPT !.line_items = << >>],
                                             line_items[1])
                         ELSE [raised |-> FALSE, error |-> "", session |-> session]
         IN IF replaced.raised
            THEN [raised |-> TRUE, error |-> replaced.error,
                  store |-> put_session(store, replaced.session), id |-> 0]
            ELSE LET discounted == IF discounts # None
                                   THEN apply_codes(replaced.session, discounts[1])
                                   ELSE replaced.session
                     updated == IF buyer # None
                                THEN set_buyer(discounted, buyer[1])
                                ELSE discounted
                 IN [raised |-> FALSE, error |-> "",
                     store |-> put_session(store, updated), id |-> session_id]

\* complete_checkout_session that takes the completed session out of the
\* store
complete_checkout_session_deleting(store, session_id) ==
    IF get_checkout_session(store, session_id) = None
    THEN [raised |-> TRUE, error |-> "NotFound", store |-> store, id |-> 0]
    ELSE [raised |-> FALSE, error |-> "",
          store |-> [i \in DOMAIN store \ {session_id} |-> store[i]],
          id |-> session_id]

\* complete_checkout_session that also drops what was discounted
complete_checkout_session_resetting(store, session_id) ==
    IF get_checkout_session(store, session_id) = None
    THEN [raised |-> TRUE, error |-> "NotFound", store |-> store, id |-> 0]
    ELSE [raised |-> FALSE, error |-> "",
          store |-> put_session(store, [store[session_id] EXCEPT
                                          !.status = "completed",
                                          !.applied = << >>,
                                          !.codes = << >>]),
          id |-> session_id]

\* complete_checkout_session that refuses a session that is completed
complete_checkout_session_guarded(store, session_id) ==
    IF get_checkout_session(store, session_id) = None
    THEN [raised |-> TRUE, error |-> "NotFound", store |-> store, id |-> 0]
    ELSE IF store[session_id].status = "completed"
    THEN [raised |-> TRUE, error |-> "InvalidArgument", store |-> store, id |-> 0]
    ELSE [raised |-> FALSE, error |-> "",
          store |-> put_session(store, [store[session_id] EXCEPT !.status = "completed"]),
          id |-> session_id]

\* complete_checkout_session
complete_checkout_session(store, session_id) ==
    IF get_checkout_session(store, session_id) = None
    THEN [raised |-> TRUE, error |-> "NotFound", store |-> store, id |-> 0]
    ELSE [raised |-> FALSE, error |-> "",
          store |-> put_session(store, [store[session_id] EXCEPT !.status = "completed"]),
          id |-> session_id]

(***************************************************************************)
(* The function dispatcher execute_ucp_function (server/ai_agent.py).      *)
(* A cart is a sequence of entries [id, price, quantity] (the title        *)
(* snapshot follows the id and is left out).  The arguments of a tool call *)
(* are a record [product_id, quantity, code, buyer]; quantity and buyer    *)
(* are Optional, an absent one taking the default of arguments.get.        *)
(***************************************************************************)
FunctionNames ==
    {"search_products", "get_product_details", "add_to_cart", "view_cart",
     "apply_discount", "create_checkout", "complete_checkout"}

\* the buyer the dispatcher supplies when the model names none
DefaultBuyer == "Customer"

\* str.upper on the codes the model may send
Upper(code) == IF code = "10off" THEN "10OFF" ELSE code

\* next((item for item in cart if item.get("id") == product_id), None), by index
existing_item(cart, product_id) ==
    IF \E i \in 1..Len(cart) : cart[i].id = product_id
    THEN Some(CHOOSE i \in 1..Len(cart) :
                 /\ cart[i].id = product_id
                 /\ \A j \in 1..(i - 1) : cart[j].id # product_id)
    ELSE None

\* the line_items list the dispatcher builds from the cart
cart_line_items(cart) ==
    [i \in 1..Len(cart) |-> [id |-> cart[i].id, quantity |-> cart[i].quantity]]

\* sum(item.get("price", 0) * item.get("quantity", 1) for item in cart)
cart_subtotal(cart) ==
    SumSeq([i \in 1..Len(cart) |-> cart[i].price * cart[i].quantity])

\* sum(item.get("quantity", 1) for item in cart)
cart_total_items(cart) ==
    SumSeq([i \in 1..Len(cart) |-> cart[i].quantity])

\* result = {"success": False, "data": None, "error": None, "cart": cart,
\*           "checkout_session": checkout_session}, with the store beside it
InitialResult(cart, checkout_session, store) ==
    [success |-> FALSE, data |-> None, error |-> "",
     cart |-> cart, checkout_session |-> checkout_session, store |-> store]

\* add_to_cart without the look-up of an existing entry
do_add_to_cart_appending(arguments, cart, checkout_session, store) ==
    LET result == InitialResult(cart, checkout_session, store)
        product_id == arguments.product_id
        quantity == IF arguments.quantity = None THEN 1 ELSE arguments.quantity[1]
        product == get_product(product_id)
    IN IF product = None
       THEN [result EXCEPT !.error = "NotFound"]
       ELSE [result EXCEPT
               !.cart = Append(cart, [id |-> product_id,
                                      price |-> product[1],
                                      quantity |-> quantity]),
               !.data = Some([quantity |-> quantity]),
               !.success = TRUE]

\* the branch add_to_cart
do_add_to_cart(arguments, cart, checkout_session, store) ==
    LET result == InitialResult(cart, checkout_session, store)
        product_id == arguments.product_id
        quantity == IF arguments.quantity = None THEN 1 ELSE arguments.quantity[1]
        product == get_product(product_id)
        found == existing_item(cart, product_id)
    IN IF product = None
       THEN [result EXCEPT !.error = "NotFound"]
       ELSE [result EXCEPT
               !.cart = IF found # None
                        THEN [cart EXCEPT ![found[1]].quantity = @ + quantity]
                        ELSE Append(cart, [id |-> product_id,
                                           price |-> product[1],
                                           quantity |-> quantity]),
               !.data = Some([quantity |-> quantity]),
               !.success = TRUE]

\* view_cart that reports the number of entries as the number of items
do_view_cart_counting_entries(arguments, cart, checkout_session, store) ==
    [InitialResult(cart, checkout_session, store) EXCEPT
       !.data = Some([subtotal |-> cart_subtotal(cart),
                      item_count |-> Len(cart),
                      total_items |-> Len(cart)]),
       !.success = TRUE]

\* the branch view_cart
do_view_cart(arguments, cart, checkout_session, store) ==
    [InitialResult(cart, checkout_session, store) EXCEPT
       !.data = Some([subtotal |-> cart_subtotal(cart),
                      item_count |-> Len(cart),
                      total_items |-> cart_total_items(cart)]),
       !.success = TRUE]

\* apply_discount that leaves the held session its line items
do_apply_discount_keeping_items(arguments, cart, checkout_session, store) ==
    LET result == InitialResult(cart, checkout_session, store)
        code == Upper(arguments.code)
        line_items == cart_line_items(cart)
        buyer == Some(DefaultBuyer)
    IN IF cart = << >>
       THEN [result EXCEPT !.error = "InvalidArgument"]
       ELSE IF checkout_session # None
       THEN LET r == update_checkout_session(store, checkout_session[1].id,
                                             None, Some(<< code >>), buyer)
            IN IF r.raised
               THEN [result EXCEPT !.error = r.error, !.store = r.store]
               ELSE [result EXCEPT
                       !.checkout_session = Some(to_ucp_response(r.store[r.id])),
                       !.store = r.store,
                       !.data = Some([code |-> code]),
                       !.success = TRUE]
       ELSE LET r == create_checkout_session(store, line_items, buyer)
            IN IF r.raised
               THEN [result EXCEPT !.error = r.error]
               ELSE LET session == apply_discount(r.store[r.id], code).session
                    IN [result EXCEPT
                          !.checkout_session = Some(to_ucp_response(session)),
                          !.store = put_session(r.store, session),
                          !.data = Some([code |-> code]),
                          !.success = TRUE]

\* the branch apply_discount
do_apply_discount(arguments, cart, checkout_session, store) ==
    LET result == InitialResult(cart, checkout_session, store)
        code == Upper(arguments.code)
        line_items == cart_line_items(cart)
        buyer == Some(DefaultBuyer)
    IN IF cart = << >>
       THEN [result EXCEPT !.error = "InvalidArgument"]
       ELSE IF checkout_session # None
       THEN LET r == update_checkout_session(store, checkout_session[1].id,
                                             Some(line_items), Some(<< code >>), buyer)
            IN IF r.raised
               THEN [result EXCEPT !.error = r.error, !.store = r.store]
               ELSE [result EXCEPT
                       !.checkout_session = Some(to_ucp_response(r.store[r.id])),
                       !.store = r.store,
                       !.data = Some([code |-> code]),
                       !.success = TRUE]
       ELSE LET r == create_checkout_session(store, line_items, buyer)
            IN IF r.raised
               THEN [result EXCEPT !.error = r.error]
               ELSE LET session == apply_discount(r.store[r.id], code).session
                    IN [result EXCEPT
                          !.checkout_session = Some(to_ucp_response(session)),
                          !.store = put_session(r.store, session),
                          !.data = Some([code |-> code]),
                          !.success = TRUE]

\* the branch create_checkout
do_create_checkout(arguments, cart, checkout_session, store) ==
    LET result == InitialResult(cart, checkout_session, store)
        buyer == IF arguments.buyer = None THEN Some(DefaultBuyer) ELSE arguments.buyer
    IN IF cart = << >>
       THEN [result EXCEPT !.error = "InvalidArgument"]
       ELSE LET r == create_checkout_session(store, cart_line_items(cart), buyer)
            IN IF r.raised
               THEN [result EXCEPT !.error = r.error]
               ELSE [result EXCEPT
                       !.checkout_session = Some(to_ucp_response(r.store[r.id])),
                       !.store = r.store,
                       !.data = Some([session_id |-> r.id,
                                      status |-> r.store[r.id].status]),
                       !.success = TRUE]

\* complete_checkout that empties the cart before it looks for the reference
do_complete_checkout_clearing(arguments, cart, checkout_session, store) ==
    LET result == InitialResult(<< >>, checkout_session, store)
    IN IF checkout_session = None
       THEN [result EXCEPT !.error = "InvalidArgument"]
       ELSE LET r == complete_checkout_session(store, checkout_session[1].id)
            IN IF r.raised
               THEN [result EXCEPT !.error = r.error]
               ELSE [result EXCEPT
                       !.checkout_session = None,
                       !.store = r.store,
                       !.data = Some([status |-> "completed"]),
                       !.success = TRUE]

\* the branch complete_checkout
do_complete_checkout(arguments, cart, checkout_session, store) ==
    LET result == InitialResult(cart, checkout_session, store)
    IN IF checkout_session = None
       THEN [result EXCEPT !.error = "InvalidArgument"]
       ELSE LET r == complete_checkout_session(store, checkout_session[1].id)
            IN IF r.raised
               THEN [result EXCEPT !.error = r.error]
               ELSE [result EXCEPT
                       !.cart = << >>,
                       !.checkout_session = None,
                       !.store = r.store,
                       !.data = Some([status |-> "completed"]),
                       !.success = TRUE]

\* the branch search_products: the catalog search is a read
do_search_products(arguments, cart, checkout_session, store) ==
    [InitialResult(cart, checkout_session, store) EXCEPT
       !.data = Some([count |-> Cardinality(CatalogIds)]),
       !.success = TRUE]

\* the branch get_product_details
do_get_product_details(arguments, cart, checkout_session, store) ==
    LET result == InitialResult(cart, checkout_session, store)
    IN IF get_product(arguments.product_id) = None
       THEN [result EXCEPT !.error = "NotFound"]
       ELSE [result EXCEPT
               !.data = Some([price |-> get_product(arguments.product_id)[1]]),
               !.success = TRUE]

\* the final else returning a cart of its own
do_unknown_function_clearing(arguments, cart, checkout_session, store) ==
    [InitialResult(<< >>, checkout_session, store) EXCEPT !.error = "UnknownOperation"]

\* the final else: a name none of the branches takes
do_unknown_function(arguments, cart, checkout_session, store) ==
    [InitialResult(cart, checkout_session, store) EXCEPT !.error = "UnknownOperation"]

\* execute_ucp_function
execute_ucp_function(function_name, arguments, cart, checkout_session, store) ==
    CASE function_name = "search_products" ->
            do_search_products(arguments, cart, checkout_session, store)
      [] function_name = "get_product_details" ->
            do_get_product_details(arguments, cart, checkout_session, store)
      [] function_name = "add_to_cart" ->
            do_add_to_cart(arguments, cart, checkout_session, store)
      [] function_name = "view_cart" ->
            do_view_cart(arguments, cart, checkout_session, store)
      [] function_name = "apply_discount" ->
            do_apply_discount(arguments, cart, checkout_session, store)
      [] function_name = "create_checkout" ->
            do_create_checkout(arguments, cart, checkout_session, store)
      [] function_name = "complete_checkout" ->
            do_complete_checkout(arguments, cart, checkout_session, store)
      [] OTHER ->
            do_unknown_function(arguments, cart, checkout_session, store)

(***************************************************************************)
(* The orchestration loop process_chat_message (server/ai_agent.py) and    *)
(* the state of the program.                                               *)
(***************************************************************************)
VARIABLES
    sessions,             \* _checkout_sessions, the session store
    configured,           \* LITELLM_AVAILABLE and API_KEY_CONFIGURED
    pc,                   \* where the turn stands: idle, loop, tools, done
    cart,                 \* the cart list the caller passed in
    checkout_session,     \* the checkout-session reference the caller passed in
    aliased,              \* leading entries of current_cart that are the
                          \* caller's own dicts (cart.copy() is shallow)
    iteration,            \* the loop counter
    current_cart,         \* the loop's cart
    current_checkout,     \* the loop's checkout-session reference
    function_calls_made,  \* the tool-call records of the turn
    tool_calls,           \* the tool calls of the model's reply still to run
    messages,             \* the end of the list sent to the model: what the
                          \* loop appended to it from the model's last reply
                          \* on (the list is only appended to)
    assistant_message,    \* the content of the model's last reply, if any
    result,               \* the dict the turn returned, once it has
    outcome,              \* how the turn ended: answered, failed, exhausted,
                          \* unconfigured; running until it has
    model_calls,          \* litellm.completion invocations of the turn
    dispatched,           \* execute_ucp_function invocations of the turn
    last,                 \* the last execute_ucp_function call: what it was
                          \* given and what it returned
    turns,                \* turns started
    requests,             \* HTTP requests served on /checkout-sessions
    http,                 \* the last such request and its response
    handler,              \* the update_checkout handler the event loop is
                          \* running, and how far it has come
    user_message,         \* message, the user's new message
    conversation_history, \* the prior turns the caller sent with it
    prompt                \* the list built for the first litellm.completion
                          \* call of the turn

chat_vars ==
    << configured, pc, cart, checkout_session, aliased, iteration, current_cart,
       current_checkout, function_calls_made, tool_calls, messages,
       assistant_message, result, outcome, model_calls, dispatched, last, turns,
       user_message, conversation_history, prompt >>

http_vars == << requests, http, handler >>

prompt_vars == << user_message, conversation_history, prompt >>

vars == << sessions, chat_vars, http_vars, prompt_vars >>

\* max_iterations = 5
max_iterations == 5

\* the loop condition off by one: while iteration <= max_iterations
loop_continues_off_by_one(i) == i <= max_iterations

\* while iteration < max_iterations
loop_continues(i) == i < max_iterations

\* the handler without its early return
first_round_failed_never(i) == FALSE

\* if iteration == 1, in the handler of a failed model call
first_round_failed(i) == i = 1

\* the update of the loop's cart left out
next_cart_kept(cur, function_result) == cur

\* current_cart = function_result.get("cart", current_cart)
next_cart(cur, function_result) == function_result.cart

\* the update written as function_result.get("checkout_session") or
\* current_checkout, which keeps the reference when the result clears it
next_checkout_or_current(cur, function_result) ==
    IF function_result.checkout_session = None
    THEN cur
    ELSE function_result.checkout_session

\* if "checkout_session" in function_result: current_checkout = ...
next_checkout(cur, function_result) == function_result.checkout_session

\* the record without the error of the result
call_record_without_error(function_name, arguments, function_result) ==
    [function |-> function_name,
     arguments |-> arguments,
     success |-> function_result.success,
     error |-> ""]

\* function_calls_made.append({"function", "arguments", "result"})
call_record(function_name, arguments, function_result) ==
    [function |-> function_name,
     arguments |-> arguments,
     success |-> function_result.success,
     error |-> function_result.error]

\* the ids the model gives the tool calls of a reply: the calls of a turn are
\* numbered as they come, n of them having come in the replies before
with_call_ids(calls, n) ==
    [k \in 1..Len(calls) |->
        [name |-> calls[k].name, arguments |-> calls[k].arguments, id |-> n + k]]

\* assistant_msg_dict, with the ids of its tool_calls for the list; its
\* content is assistant_message
assistant_msg_dict(calls) ==
    [role |-> "assistant",
     tool_call_ids |-> [k \in 1..Len(calls) |-> calls[k].id],
     tool_call_id |-> 0, success |-> FALSE, error |-> ""]

\* the tool message whose result is put under the id of another call
tool_message_unkeyed(tool_call, function_result) ==
    [role |-> "tool", tool_call_ids |-> << >>, tool_call_id |-> 0,
     success |-> function_result.success, error |-> function_result.error]

\* messages.append({"role": "tool", "tool_call_id": tool_call_id,
\*                  "content": json.dumps(serializable_result)})
tool_message(tool_call, function_result) ==
    [role |-> "tool", tool_call_ids |-> << >>, tool_call_id |-> tool_call.id,
     success |-> function_result.success, error |-> function_result.error]

\* the final response text with the content of the reply taken as it is
final_response_verbatim(message) ==
    IF message = None THEN "stock greeting" ELSE message[1]

\* the final response text: the content of the last reply, a stock greeting
\* when there is no reply, a stock line when its content is empty
final_response(message) ==
    IF message = None THEN "stock greeting"
    ELSE IF message[1] = "" THEN "stock line" ELSE message[1]

\* the dict returned after the loop with a list of records of its own
final_result_without_calls(message, c, cs, calls) ==
    [response |-> final_response(message),
     cart |-> c, checkout_session |-> cs, function_calls |-> << >>]

\* the dict returned after the loop
final_result(message, c, cs, calls) ==
    [response |-> final_response(message),
     cart |-> c, checkout_session |-> cs, function_calls |-> calls]

\* the dict returned when the first model call fails
error_result(c, cs, calls) ==
    [response |-> "error", cart |-> c, checkout_session |-> cs,
     function_calls |-> calls]

\* the dict of a configuration error with a cart and a reference of its own
configuration_result_reset(c, cs) ==
    [response |-> "not configured", cart |-> << >>, checkout_session |-> None,
     function_calls |-> << >>]

\* the dict returned when litellm or the API key is missing
configuration_result(c, cs) ==
    [response |-> "not configured", cart |-> c, checkout_session |-> cs,
     function_calls |-> << >>]

\* conversation_history[-10:] keeps this many turns
HistoryWindow == 10

\* a message dict: its role and its content (a text is a number; the system
\* prompt is text 0 and carries the number of cart entries its cart summary
\* lists, 0 when it has none)
msg_dict(role, content) == [role |-> role, content |-> content, cart_summary |-> 0]

\* the first HistoryWindow turns, conversation_history[:10]
first_turns(history) ==
    IF Len(history) <= HistoryWindow
    THEN history
    ELSE SubSeq(history, 1, HistoryWindow)

\* conversation_history[-10:]
last_turns(history) ==
    IF Len(history) <= HistoryWindow
    THEN history
    ELSE SubSeq(history, Len(history) - HistoryWindow + 1, Len(history))

\* messages as process_chat_message builds it before the loop: the system
\* message, the last turns of the history, the user's message; the cart
\* summary is added to the system message when the cart has entries
initial_messages(history, text, c) ==
    << [msg_dict("system", 0) EXCEPT !.cart_summary = Len(c)] >>
    \o last_turns(history)
    \o << msg_dict("user", text) >>

NoArguments == [product_id |-> "", quantity |-> None, code |-> "", buyer |-> None]

NoCall ==
    [function |-> "", arguments |-> NoArguments,
     cart |-> << >>, checkout_session |-> None, store |-> << >>,
     result |-> InitialResult(<< >>, None, << >>)]

NoRequest ==
    [op |-> "", id |-> 0, discounts |-> None, buyer |-> None, quantity |-> None,
     status |-> None, raised |-> FALSE, error |-> ""]

\* no update_checkout handler is running
NoHandler ==
    [id |-> 0, phase |-> "", line_items |-> None, discounts |-> None,
     buyer |-> None, items_left |-> << >>, codes_left |-> << >>, start |-> << >>]

(***************************************************************************)
(* What the environment supplies: the caller's cart and reference, the     *)
(* model's replies, the HTTP requests.                                     *)
(***************************************************************************)
Arguments(product_id, quantity, code, buyer) ==
    [product_id |-> product_id, quantity |-> quantity, code |-> code, buyer |-> buyer]

ToolCall(name, arguments) == [name |-> name, arguments |-> arguments]

\* a name that is none of the seven registered ones
UnknownFunction == "cancel_order"

\* the reference a caller holds to a session the store does not have (ids
\* of stored sessions are positive)
StaleReference == [id |-> 0, status |-> "ready_for_complete", total |-> 0]

\* the tool calls a reply draws on while one turn runs to the cap
LoopCalls ==
    {ToolCall("add_to_cart", Arguments("P1", None, "", None)),
     ToolCall("apply_discount", Arguments("", None, "10OFF", None)),
     ToolCall("complete_checkout", NoArguments)}

\* the tool calls a reply draws on while turns follow one another
TurnCalls ==
    {ToolCall("add_to_cart", Arguments("P1", None, "", None)),
     ToolCall("add_to_cart", Arguments("P1", Some(2), "", None)),
     ToolCall("add_to_cart", Arguments("P2", Some(0 - 1), "", None)),
     ToolCall("add_to_cart", Arguments(UnknownProduct, None, "", None)),
     ToolCall("view_cart", NoArguments),
     ToolCall("search_products", NoArguments),
     ToolCall("get_product_details", Arguments("P1", None, "", None)),
     ToolCall("apply_discount", Arguments("", None, "10off", None)),
     ToolCall("apply_discount", Arguments("", None, "FREESHIP", None)),
     ToolCall("apply_discount", Arguments("", None, "BOGUS", None)),
     ToolCall("create_checkout", NoArguments),
     ToolCall("create_checkout", Arguments("", None, "", Some("Alice"))),
     ToolCall("complete_checkout", NoArguments),
     ToolCall(UnknownFunction, NoArguments)}

\* the non-empty sequences of at most n tool calls drawn from a set
Replies(calls, n) ==
    UNION {[1..k -> calls] : k \in 1..n}

\* the content of a reply: none, or a text
Contents == {"", "answer"}

\* the replies with tool calls while one turn runs to the cap
LoopReplies ==
    {[content |-> c, tool_calls |-> r] : c \in Contents, r \in Replies(LoopCalls, MaxPerReply)}

\* the replies with tool calls while turns follow one another
TurnReplies ==
    {[content |-> "", tool_calls |-> r] : r \in Replies(TurnCalls, 1)}

\* the text of a new message that no prior turn has
NewText == 0

\* the texts of the user's message: a new one, and that of the first prior turn
Texts == {NewText, 1}

\* the histories a caller may send: n prior turns, the k-th with text k, the
\* user and the assistant taking turns
Histories ==
    {[k \in 1..n |-> msg_dict(IF k % 2 = 1 THEN "user" ELSE "assistant", k)] :
        n \in 0..MaxHistory}

\* the carts a caller may pass in on the first turn
InitialCarts ==
    {<< >>, << [id |-> "P1", price |-> PRODUCT_CATALOG["P1"], quantity |-> 1] >>}

(***************************************************************************)
(* The initial state: the server has started, nothing is stored, no turn   *)
(* runs.                                                                   *)
(***************************************************************************)
InitState ==
    /\ sessions = << >>
    /\ configured \in BOOLEAN
    /\ pc = "idle"
    /\ cart \in InitialCarts
    /\ checkout_session = None
    /\ aliased = 0
    /\ iteration = 0
    /\ current_cart = << >>
    /\ current_checkout = None
    /\ function_calls_made = << >>
    /\ tool_calls = << >>
    /\ messages = << >>
    /\ assistant_message = None
    /\ result = None
    /\ outcome = "running"
    /\ model_calls = 0
    /\ dispatched = 0
    /\ last = NoCall
    /\ turns = 0
    /\ requests = 0
    /\ http = NoRequest
    /\ handler = NoHandler
    /\ prompt = << >>

\* where the history does not matter the caller sends none
Init ==
    /\ InitState
    /\ user_message = NewText
    /\ conversation_history = << >>

(***************************************************************************)
(* process_chat_message, step by step.                                     *)
(***************************************************************************)
\* the two early returns: litellm is not importable, or no API key is set
ConfigurationError ==
    /\ pc = "idle"
    /\ ~configured
    /\ turns < MaxTurns
    /\ turns' = turns + 1
    /\ result' = Some(configuration_result(cart, checkout_session))
    /\ outcome' = "unconfigured"
    /\ pc' = "done"
    /\ model_calls' = 0
    /\ dispatched' = 0
    /\ UNCHANGED << sessions, configured, cart, checkout_session, aliased, iteration,
                    current_cart, current_checkout, function_calls_made, tool_calls, messages,
                    assistant_message, last, http_vars, prompt_vars >>

\* the lines before the loop: current_cart = cart.copy(), and so on
StartTurn ==
    /\ pc = "idle"
    /\ configured
    /\ turns < MaxTurns
    /\ turns' = turns + 1
    /\ function_calls_made' = << >>
    /\ iteration' = 0
    /\ current_cart' = cart
    /\ aliased' = Len(cart)
    /\ current_checkout' = checkout_session
    /\ tool_calls' = << >>
    /\ messages' = << >>
    /\ assistant_message' = None
    /\ result' = None
    /\ outcome' = "running"
    /\ model_calls' = 0
    /\ dispatched' = 0
    /\ last' = NoCall
    /\ prompt' = initial_messages(conversation_history, user_message, cart)
    /\ pc' = "loop"
    /\ UNCHANGED << sessions, configured, cart, checkout_session, http_vars,
                    user_message, conversation_history >>

\* litellm.completion raises
ModelFails ==
    /\ pc = "loop"
    /\ loop_continues(iteration)
    /\ iteration' = iteration + 1
    /\ model_calls' = model_calls + 1
    /\ result' = IF first_round_failed(iteration')
                 THEN Some(error_result(current_cart, current_checkout,
                                        function_calls_made))
                 ELSE Some(final_result(assistant_message, current_cart,
                                        current_checkout, function_calls_made))
    /\ outcome' = "failed"
    /\ pc' = "done"
    /\ UNCHANGED << sessions, configured, cart, checkout_session, aliased,
                    current_cart, current_checkout, function_calls_made, tool_calls, messages,
                    assistant_message, dispatched, last, turns, http_vars, prompt_vars >>

\* litellm.completion returns a reply without tool calls: break
ModelAnswers(contents) ==
    /\ pc = "loop"
    /\ loop_continues(iteration)
    /\ iteration' = iteration + 1
    /\ model_calls' = model_calls + 1
    /\ \E content \in contents :
          /\ assistant_message' = Some(content)
          /\ result' = Some(final_result(Some(content), current_cart,
                                         current_checkout, function_calls_made))
    /\ messages' = << assistant_msg_dict(<< >>) >>
    /\ outcome' = "answered"
    /\ pc' = "done"
    /\ UNCHANGED << sessions, configured, cart, checkout_session, aliased,
                    current_cart, current_checkout, function_calls_made, tool_calls,
                    dispatched, last, turns, http_vars, prompt_vars >>

\* litellm.completion returns a reply with tool calls: one of replies, with
\* at most budget tool calls, in one of the first rounds rounds
ModelRequestsTools(replies, budget, rounds) ==
    /\ pc = "loop"
    /\ loop_continues(iteration)
    /\ iteration < rounds
    /\ iteration' = iteration + 1
    /\ model_calls' = model_calls + 1
    /\ \E reply \in replies :
          /\ Len(reply.tool_calls) <= budget
          /\ assistant_message' = Some(reply.content)
          /\ tool_calls' = with_call_ids(reply.tool_calls, dispatched)
          /\ messages' = << assistant_msg_dict(with_call_ids(reply.tool_calls,
                                                             dispatched)) >>
    /\ pc' = "tools"
    /\ UNCHANGED << sessions, configured, cart, checkout_session, aliased,
                    current_cart, current_checkout, function_calls_made, result,
                    outcome, dispatched, last, turns, http_vars, prompt_vars >>

\* one pass of the body of "for tool_call in tool_calls"
RunToolCall ==
    /\ pc = "tools"
    /\ tool_calls # << >>
    /\ LET tool_call == Head(tool_calls)
           function_result ==
               execute_ucp_function(tool_call.name, tool_call.arguments,
                                    current_cart, current_checkout, sessions)
           \* the caller's dicts that are still entries of the loop's cart
           kept == IF function_result.cart = << >> THEN 0 ELSE aliased
       IN /\ sessions' = function_result.store
          /\ current_cart' = next_cart(current_cart, function_result)
          /\ current_checkout' = next_checkout(current_checkout, function_result)
          /\ aliased' = kept
          /\ cart' = [i \in 1..Len(cart) |->
                         IF i <= kept THEN function_result.cart[i] ELSE cart[i]]
          /\ function_calls_made' =
                 Append(function_calls_made,
                        call_record(tool_call.name, tool_call.arguments, function_result))
          /\ messages' = Append(messages, tool_message(tool_call, function_result))
          /\ last' = [function |-> tool_call.name,
                      arguments |-> tool_call.arguments,
                      cart |-> current_cart,
                      checkout_session |-> current_checkout,
                      store |-> sessions,
                      result |-> function_result]
    /\ tool_calls' = Tail(tool_calls)
    /\ dispatched' = dispatched + 1
    /\ pc' = IF Tail(tool_calls) = << >> THEN "loop" ELSE "tools"
    /\ UNCHANGED << configured, checkout_session, iteration, assistant_message,
                    result, outcome, model_calls, turns, http_vars, prompt_vars >>

\* the while condition fails: the cap is exhausted
LoopExit ==
    /\ pc = "loop"
    /\ ~loop_continues(iteration)
    /\ result' = Some(final_result(assistant_message, current_cart,
                                   current_checkout, function_calls_made))
    /\ outcome' = "exhausted"
    /\ pc' = "done"
    /\ UNCHANGED << sessions, configured, cart, checkout_session, aliased, iteration,
                    current_cart, current_checkout, function_calls_made, tool_calls, messages,
                    assistant_message, model_calls, dispatched, last, turns, http_vars, prompt_vars >>

\* the caller takes the returned cart and reference and sends them with its
\* next message (ai_agent_chat returns them; the client threads them)
NextMessage ==
    /\ pc = "done"
    /\ turns < MaxTurns
    /\ cart' = result[1].cart
    /\ checkout_session' = result[1].checkout_session
    /\ aliased' = 0
    /\ pc' = "idle"
    /\ UNCHANGED << sessions, configured, iteration, current_cart, current_checkout,
                    function_calls_made, tool_calls, messages, assistant_message, result,
                    outcome, model_calls, dispatched, last, turns, http_vars,
                    user_message, conversation_history >>
    /\ prompt' = << >>

\* one turn that may run to the cap
NextLoop ==
    \/ ConfigurationError
    \/ StartTurn
    \/ ModelFails
    \/ ModelAnswers(Contents)
    \/ ModelRequestsTools(LoopReplies, MaxCalls - dispatched, max_iterations)
    \/ RunToolCall
    \/ LoopExit

Spec == Init /\ [][NextLoop]_vars

\* the caller sends, with its next message, a reference to a session the
\* store does not have (one kept from before a restart of the server)
NextMessageStale ==
    /\ pc = "done"
    /\ turns < MaxTurns
    /\ cart' = result[1].cart
    /\ checkout_session' = Some(StaleReference)
    /\ aliased' = 0
    /\ pc' = "idle"
    /\ UNCHANGED << sessions, configured, iteration, current_cart, current_checkout,
                    function_calls_made, tool_calls, messages, assistant_message, result,
                    outcome, model_calls, dispatched, last, turns, http_vars,
                    user_message, conversation_history >>
    /\ prompt' = << >>

\* turns that follow one another, the caller threading the returned state;
\* in each the model requests at most one tool call and then answers or fails
NextTurns ==
    \/ ConfigurationError
    \/ StartTurn
    \/ ModelFails
    \/ ModelAnswers({"answer"})
    \/ ModelRequestsTools(TurnReplies, 1, 1)
    \/ RunToolCall
    \/ NextMessage
    \/ NextMessageStale

SpecTurns == Init /\ [][NextTurns]_vars

(***************************************************************************)
(* The HTTP handlers of /checkout-sessions (server/app.py).  Each is an    *)
(* async function without an await between reading the body and the       *)
(* response, so it runs to its end on the event loop.                      *)
(***************************************************************************)
LineItem(product_id, quantity) == [id |-> product_id, quantity |-> quantity]

\* the line_items of the request bodies
RequestLineItems ==
    {<< >>,
     << LineItem("P1", 2) >>,
     << LineItem("P2", 1) >>,
     << LineItem("P2", 0 - 1) >>,
     << LineItem("P1", 1), LineItem(UnknownProduct, 1) >>}

\* the discounts["codes"] of the request bodies
RequestCodes ==
    {<< "10OFF" >>, << "SAVE20" >>, << "FREESHIP" >>, << "BOGUS" >>,
     << "BOGUS", "10OFF" >>}

\* the buyer of the request bodies
RequestBuyers == {None, Some("Alice")}

\* the session ids of the request paths: the stored ones and one that is not
RequestIds == DOMAIN sessions \cup {StaleReference.id}

\* the request and its response: the path's id, the codes of the body, the
\* status the session it names had when the request arrived, and what the
\* handler raised, if it did
Response(op, session_id, discounts, r) ==
    [op |-> op, id |-> session_id, discounts |-> discounts,
     buyer |-> None, quantity |-> None,
     status |-> IF session_id \in DOMAIN sessions
                THEN Some(sessions[session_id].status)
                ELSE None,
     raised |-> r.raised, error |-> r.error]

\* the same with the buyer of the body
BodyResponse(op, session_id, discounts, buyer, r) ==
    [Response(op, session_id, discounts, r) EXCEPT !.buyer = buyer]

\* POST /checkout-sessions
HttpCreate ==
    /\ requests < MaxRequests
    /\ \E line_items \in RequestLineItems, buyer \in RequestBuyers :
          LET r == create_checkout_session(sessions, line_items, buyer)
          IN /\ sessions' = r.store
             /\ http' = BodyResponse("create", r.id, None, buyer, r)
    /\ requests' = requests + 1
    /\ UNCHANGED << chat_vars, handler >>

\* GET /checkout-sessions/{session_id}
HttpGet ==
    /\ requests < MaxRequests
    /\ \E session_id \in RequestIds :
          LET found == get_checkout_session(sessions, session_id)
          IN http' = Response("get", session_id, None,
                              [raised |-> found = None,
                               error |-> IF found = None THEN "NotFound" ELSE ""])
    /\ requests' = requests + 1
    /\ UNCHANGED << sessions, chat_vars, handler >>

\* PUT /checkout-sessions/{session_id}
HttpUpdate ==
    /\ requests < MaxRequests
    /\ \E session_id \in RequestIds,
          line_items \in {None} \cup {Some(l) : l \in RequestLineItems},
          discounts \in {None} \cup {Some(c) : c \in RequestCodes},
          buyer \in RequestBuyers :
          LET r == update_checkout_session(sessions, session_id, line_items,
                                           discounts, buyer)
          IN /\ sessions' = r.store
             /\ http' = BodyResponse("update", session_id, discounts, buyer, r)
    /\ requests' = requests + 1
    /\ UNCHANGED << chat_vars, handler >>

\* POST /checkout-sessions/{session_id}/complete
HttpComplete ==
    /\ requests < MaxRequests
    /\ \E session_id \in RequestIds :
          LET r == complete_checkout_session(sessions, session_id)
          IN /\ sessions' = r.store
             /\ http' = Response("complete", session_id, None, r)
    /\ requests' = requests + 1
    /\ UNCHANGED << chat_vars, handler >>

NextStore ==
    \/ HttpCreate
    \/ HttpGet
    \/ HttpUpdate
    \/ HttpComplete

\* the server has started and serves no chat turn
InitStore == Init /\ configured /\ cart = << >>

SpecStore == InitStore /\ [][NextStore]_vars

\* for tool_call in tool_calls: what RunToolCall does to the queue of tool
\* calls.  The dispatcher returns for every call, so RunToolCall can be taken
\* exactly when the head of the queue can be taken off.
Dispatch ==
    /\ pc = "tools"
    /\ tool_calls # << >>
    /\ tool_calls' = Tail(tool_calls)

\* the tool calls a reply draws on where the turn is followed to its return:
\* one that changes the cart and one that fails while no reference is held
LiveCalls ==
    {ToolCall("add_to_cart", Arguments("P1", None, "", None)),
     ToolCall("complete_checkout", NoArguments)}

LiveReplies ==
    {[content |-> c, tool_calls |-> r] : c \in Contents, r \in Replies(LiveCalls, MaxPerReply)}

\* one pass of the while statement up to the model's reply, or its exit
ModelStep ==
    \/ ModelFails
    \/ ModelAnswers(Contents)
    \/ ModelRequestsTools(LiveReplies, MaxCalls - dispatched, max_iterations)
    \/ LoopExit

NextLive ==
    \/ ConfigurationError
    \/ StartTurn
    \/ ModelStep
    \/ RunToolCall

\* process_chat_message is synchronous code on one thread: once a turn has
\* started, the statement that can run next does run
SpecLive ==
    Init /\ [][NextLive]_vars /\ WF_vars(ModelStep) /\ WF_tool_calls(Dispatch)

(***************************************************************************)
(* The orchestration loop: the cap and termination.                        *)
(***************************************************************************)
\* C1: one call of process_chat_message makes at most 5 model calls,
\* whatever the model replies and however many tool calls a reply holds.
C1_AtMostFiveModelCalls == model_calls <= 5

\* a turn in which every one of the 5 replies requested tools, one of them
\* more than one
C1_Witness ==
    /\ outcome = "exhausted"
    /\ model_calls = 5
    /\ dispatched > 5

\* C2: every call of process_chat_message returns; when the cap is exhausted
\* without a plain-text answer it has made 5 model calls and no more, and it
\* returns the cart and the reference the last tool call returned together
\* with one record per tool call dispatched.
C2_ExhaustedReturn ==
    outcome = "exhausted" =>
        /\ pc = "done"
        /\ model_calls = 5
        /\ iteration = max_iterations
        /\ tool_calls = << >>
        /\ result # None
        /\ result[1].cart = last.result.cart
        /\ result[1].checkout_session = last.result.checkout_session
        /\ Len(result[1].function_calls) = dispatched
        /\ \A k \in 1..dispatched : result[1].function_calls[k] = function_calls_made[k]

C2_ReturnsAndKeepsState ==
    /\ [](pc \in {"loop", "tools"} => <>(pc = "done" /\ result # None))
    /\ []C2_ExhaustedReturn

\* the cap exhausted after a tool call that changed the cart
C2_Witness ==
    /\ outcome = "exhausted"
    /\ pc = "done"
    /\ last.function = "add_to_cart"
    /\ result[1].cart # cart
    /\ Len(result[1].function_calls) >= 5

\* C3: after a successful complete_checkout dispatch (a reference is held
\* and its id is in the store) the returned cart is empty, the returned
\* reference is None, the stored session is completed, and the loop carries
\* both into the following tool calls and into the result of the turn.
C3_CompleteClearsCartAndReference ==
    (/\ last.function = "complete_checkout"
     /\ last.checkout_session # None
     /\ last.checkout_session[1].id \in DOMAIN last.store)
    => /\ last.result.success
       /\ last.result.cart = << >>
       /\ last.result.checkout_session = None
       /\ sessions[last.checkout_session[1].id].status = "completed"
       /\ current_cart = << >>
       /\ current_checkout = None
       /\ pc = "done" => /\ result[1].cart = << >>
                         /\ result[1].checkout_session = None

\* a completed checkout whose empty cart and absent reference are what the
\* turn returns, the cart having held an item before
C3_Witness ==
    /\ last.function = "complete_checkout"
    /\ last.result.success
    /\ last.cart # << >>
    /\ pc = "done"
    /\ result[1].cart = << >>
    /\ result[1].checkout_session = None

(***************************************************************************)
(* The cart and the discounts.                                             *)
(***************************************************************************)
\* the quantity argument of add_to_cart: any integer the model sends
Quantities == {0 - 1, 0, 1, 2}

\* the positions of a cart that hold a product
entries_of(cart_, product_id) == {i \in 1..Len(cart_) : cart_[i].id = product_id}

\* C4: add_to_cart merges by product id: adding a catalog product with q1 and
\* then with q2 to a cart that did not contain it yields exactly one entry for
\* it, with quantity q1+q2, and leaves every other entry unchanged; and every
\* add_to_cart the loop dispatched left one entry for the product, its
\* quantity raised by the argument, and the other entries as they were.
C4_AddTwiceMerges ==
    /\ \A p \in CatalogIds : \A q1, q2 \in Quantities :
          existing_item(current_cart, p) = None =>
             LET r1 == execute_ucp_function("add_to_cart",
                                            Arguments(p, Some(q1), "", None),
                                            current_cart, current_checkout, sessions)
                 r2 == execute_ucp_function("add_to_cart",
                                            Arguments(p, Some(q2), "", None),
                                            r1.cart, r1.checkout_session, r1.store)
             IN /\ r1.success
                /\ r2.success
                /\ Cardinality(entries_of(r2.cart, p)) = 1
                /\ \A i \in entries_of(r2.cart, p) : r2.cart[i].quantity = q1 + q2
                /\ Len(r2.cart) = Len(current_cart) + 1
                /\ \A i \in 1..Len(current_cart) : r2.cart[i] = current_cart[i]
    /\ (last.function = "add_to_cart" /\ last.arguments.product_id \in CatalogIds) =>
          LET p == last.arguments.product_id
              q == IF last.arguments.quantity = None THEN 1 ELSE last.arguments.quantity[1]
              before == entries_of(last.cart, p)
          IN /\ last.result.success
             /\ Cardinality(entries_of(current_cart, p)) = 1
             /\ \A i \in entries_of(current_cart, p) :
                   /\ before = {} => current_cart[i].quantity = q
                   /\ before # {} => /\ i \in before
                                     /\ current_cart[i].quantity = last.cart[i].quantity + q
             /\ \A i \in 1..Len(last.cart) :
                   last.cart[i].id # p => current_cart[i] = last.cart[i]

\* P1 added with the default quantity 1 to a cart that held it twice over
C4_Witness ==
    /\ last.function = "add_to_cart"
    /\ last.cart = << [id |-> "P1", price |-> 1000, quantity |-> 2] >>
    /\ last.arguments.quantity = None
    /\ current_cart = << [id |-> "P1", price |-> 1000, quantity |-> 3] >>

\* C5: CheckoutSession.apply_discount computes the amount from the session's
\* current subtotal: floor(subtotal*10/100) for 10OFF, floor(subtotal*20/100)
\* for SAVE20, 500 for FREESHIP; one line item of price 1000 and quantity 2
\* gives subtotal 2000, 10OFF 200 and total 1800, FREESHIP 500 and total 1500.
C5_AmountIsFloorOfPercentage ==
    \A id \in DOMAIN sessions : \A code \in DiscountCodes :
       LET session == sessions[id]
           subtotal == LineItemsSubtotal(session.line_items)
           r == apply_discount(session, code)
           amount == r.session.applied[1].amount
           total == calculate_totals(r.session).total
       IN /\ ~r.raised
          /\ code = "10OFF" => amount = FloorDiv(subtotal * 10, 100)
          /\ code = "SAVE20" => amount = FloorDiv(subtotal * 20, 100)
          /\ code = "FREESHIP" => amount = 500
          /\ (/\ Len(session.line_items) = 1
              /\ session.line_items[1].price = 1000
              /\ session.line_items[1].quantity = 2)
             => /\ subtotal = 2000
                /\ code = "10OFF" => (amount = 200 /\ total = 1800)
                /\ code = "FREESHIP" => (amount = 500 /\ total = 1500)

\* C6: in every reachable state of every session calculate_totals returns
\* subtotal = sum of price*quantity and total = max(0, subtotal - sum of the
\* applied amounts), so that 0 <= total <= subtotal, and a flat 500 on a
\* subtotal below 500 gives total 0.
C6_TotalBetweenZeroAndSubtotal ==
    \A id \in DOMAIN sessions :
       LET session == sessions[id]
           totals == calculate_totals(session)
           applied == SumSeq([i \in 1..Len(session.applied) |-> session.applied[i].amount])
       IN /\ totals.subtotal =
                SumSeq([i \in 1..Len(session.line_items) |->
                           session.line_items[i].price * session.line_items[i].quantity])
          /\ totals.total = Max(0, totals.subtotal - applied)
          /\ 0 <= totals.total
          /\ totals.total <= totals.subtotal
          /\ (session.applied # << >> /\ session.applied[1].code = "FREESHIP"
              /\ totals.subtotal < 500) => totals.total = 0

\* codes that are not in the discount table
InvalidCodes == {"BOGUS", "10off", ""}

\* C7: CheckoutSession.apply_discount with a code that is not in the table
\* reports InvalidArgument and leaves the session's codes and applied list as
\* they were; an update request whose only code is such a code leaves them so.
C7_UnknownCodeKeepsDiscounts ==
    /\ [](\A id \in DOMAIN sessions : \A code \in InvalidCodes :
            LET r == apply_discount(sessions[id], code)
            IN /\ r.raised
               /\ r.error = "InvalidArgument"
               /\ r.session.codes = sessions[id].codes
               /\ r.session.applied = sessions[id].applied)
    /\ [][(/\ requests' = requests + 1
           /\ http'.op = "update"
           /\ http'.id \in DOMAIN sessions
           /\ http'.discounts = Some(<< "BOGUS" >>))
          => (/\ sessions'[http'.id].codes = sessions[http'.id].codes
              /\ sessions'[http'.id].applied = sessions[http'.id].applied)]_vars

\* an update with the one code BOGUS on a session that holds a discount
C7_Witness ==
    /\ http.op = "update"
    /\ http.discounts = Some(<< "BOGUS" >>)
    /\ http.id \in DOMAIN sessions
    /\ sessions[http.id].applied # << >>
    /\ sessions[http.id].codes # << >>

\* C8: the dispatcher's apply_discount with a non-empty cart and a code
\* outside the table returns success false with InvalidArgument and mutates
\* nothing: the store is as before and the returned reference is the one
\* passed in.
C8_InvalidCodeFailsWithoutMutation ==
    (/\ last.function = "apply_discount"
     /\ last.cart # << >>
     /\ Upper(last.arguments.code) \notin DiscountCodes)
    => /\ ~last.result.success
       /\ last.result.error = "InvalidArgument"
       /\ last.result.store = last.store
       /\ sessions = last.store
       /\ last.result.checkout_session = last.checkout_session

\* C9: complete and update on an id that is not in the store fail with
\* NotFound and leave the store as it was; complete on an id that is in the
\* store sets that session's status to completed and changes nothing else.
C9_NotFoundKeepsStore ==
    [][/\ (/\ requests' = requests + 1
           /\ http'.op \in {"update", "complete"}
           /\ http'.id \notin DOMAIN sessions)
          => (/\ http'.raised
              /\ http'.error = "NotFound"
              /\ sessions' = sessions)
       /\ (/\ requests' = requests + 1
           /\ http'.op = "complete"
           /\ http'.id \in DOMAIN sessions)
          => (/\ ~http'.raised
              /\ sessions' = [sessions EXCEPT ![http'.id].status = "completed"])]_vars

\* a complete on an unknown id, the store holding a completed session with a
\* discount
C9_Witness ==
    /\ http.op = "complete"
    /\ http.raised
    /\ http.error = "NotFound"
    /\ \E id \in DOMAIN sessions :
          sessions[id].status = "completed" /\ sessions[id].line_items # << >>

\* C10: a function name outside the seven registered ones returns success
\* false with UnknownOperation, and the cart, the reference and the store are
\* after the call what they were before it.
C10_UnknownFunctionMutatesNothing ==
    (last.function \notin FunctionNames \cup {""})
    => /\ ~last.result.success
       /\ last.result.error = "UnknownOperation"
       /\ last.result.cart = last.cart
       /\ last.result.checkout_session = last.checkout_session
       /\ last.result.store = last.store
       /\ current_cart = last.cart
       /\ current_checkout = last.checkout_session
       /\ sessions = last.store

\* an unknown name dispatched with a cart, a reference and a stored session
C10_Witness ==
    /\ last.function = UnknownFunction
    /\ last.cart # << >>
    /\ last.checkout_session # None
    /\ last.store # << >>

(***************************************************************************)
(* Failures of the model call and of the dispatcher.                       *)
(***************************************************************************)
\* C11: when the model call of the first round fails the turn returns at
\* once: one model call and no more, no dispatcher call, the error in the
\* response text, the cart and the reference the caller gave, and an empty
\* list of tool-call records.
C11_FirstRoundFailureReturnsInput ==
    (outcome = "failed" /\ iteration = 1)
    => /\ pc \notin {"loop", "tools"}
       /\ model_calls = 1
       /\ dispatched = 0
       /\ result # None
       /\ result[1].response = "error"
       /\ result[1].function_calls = << >>
       /\ pc = "done" => /\ result[1].cart = cart
                         /\ result[1].checkout_session = checkout_session

\* a first-round failure in a turn that was given a cart and a reference
C11_Witness ==
    /\ outcome = "failed"
    /\ iteration = 1
    /\ pc = "done"
    /\ cart # << >>
    /\ checkout_session # None
    /\ turns > 1

FailingCalls ==
    {ToolCall("add_to_cart", Arguments(UnknownProduct, None, "", None)),
     ToolCall("complete_checkout", NoArguments),
     ToolCall("add_to_cart", Arguments("P1", None, "", None))}

FailingReplies ==
    {[content |-> "", tool_calls |-> c] : c \in Replies(FailingCalls, MaxPerReply)}

\* the caller sends a reference to a session the store does not have
StaleCaller ==
    /\ pc = "idle"
    /\ turns = 0
    /\ checkout_session = None
    /\ checkout_session' = Some(StaleReference)
    /\ UNCHANGED << sessions, configured, pc, cart, aliased, iteration, current_cart,
                    current_checkout, function_calls_made, tool_calls, messages,
                    assistant_message, result, outcome, model_calls, dispatched,
                    last, turns, http_vars, prompt_vars >>

\* one pass of the while statement in such a turn
FailingStep ==
    \/ ModelFails
    \/ ModelAnswers({"answer"})
    \/ ModelRequestsTools(FailingReplies, MaxFailingCalls - dispatched, max_iterations)
    \/ LoopExit

\* one turn whose tool calls may fail
NextFailing ==
    \/ StaleCaller
    \/ StartTurn
    \/ FailingStep
    \/ RunToolCall

SpecFailing ==
    Init /\ [][NextFailing]_vars /\ WF_vars(FailingStep) /\ WF_tool_calls(Dispatch)

\* the last tool call dispatched returned success false
last_call_failed == last.function # "" /\ ~last.result.success

\* a failed tool call in round n with the loop back at its head is followed
\* by model call n+1
NextRoundFollows(n) ==
    (/\ last_call_failed
     /\ pc = "loop"
     /\ loop_continues(iteration)
     /\ model_calls = n) ~> (model_calls = n + 1)

\* a failed tool call that was the d-th of the turn, with tool calls of its
\* round remaining, is followed by the dispatch of the next
NextCallFollows(d) ==
    (/\ last_call_failed
     /\ pc = "tools"
     /\ dispatched = d) ~> (dispatched = d + 1)

PurchaseCalls ==
    {ToolCall("add_to_cart", Arguments("P1", None, "", None)),
     ToolCall("apply_discount", Arguments("", None, "10OFF", None)),
     ToolCall("create_checkout", NoArguments),
     ToolCall("complete_checkout", NoArguments)}

PurchaseReplies ==
    {[content |-> "", tool_calls |-> c] : c \in Replies(PurchaseCalls, 1)}

\* turns of a purchase, the caller threading the returned state
NextPurchase ==
    \/ StartTurn
    \/ ModelAnswers({"answer"})
    \/ ModelRequestsTools(PurchaseReplies, 1, 1)
    \/ RunToolCall
    \/ NextMessage

\* a new conversation: no cart, no reference
InitPurchase == Init /\ configured /\ cart = << >>

SpecPurchase == InitPurchase /\ [][NextPurchase]_vars

\* the line items of a session are the entries of a cart, in order
same_items(line_items, cart_) ==
    /\ Len(line_items) = Len(cart_)
    /\ \A i \in 1..Len(cart_) :
          /\ line_items[i].item = cart_[i].id
          /\ line_items[i].quantity = cart_[i].quantity

\* C14: over turns that thread the returned state, add_to_cart(P1, 1) on an
\* empty cart yields the cart [P1 x 1]; apply_discount(10OFF) without a
\* reference creates a session from the cart whose total is the subtotal
\* minus floor(10% of the subtotal); create_checkout stores a session of the
\* cart that is ready to complete; complete_checkout leaves that session
\* completed, the cart empty and the reference absent.
C14_PurchaseEndToEnd ==
    /\ (last.function = "add_to_cart" /\ last.cart = << >>)
       => /\ current_cart = << [id |-> "P1", price |-> 1000, quantity |-> 1] >>
          /\ pc = "done" => result[1].cart = current_cart
    /\ (/\ last.function = "apply_discount"
        /\ last.cart # << >>
        /\ last.checkout_session = None)
       => /\ last.result.success
          /\ current_checkout # None
          /\ current_checkout[1].id \notin DOMAIN last.store
          /\ current_checkout[1].id \in DOMAIN sessions
          /\ same_items(sessions[current_checkout[1].id].line_items, last.cart)
          /\ current_checkout[1].total =
                cart_subtotal(last.cart) - FloorDiv(cart_subtotal(last.cart) * 10, 100)
          /\ calculate_totals(sessions[current_checkout[1].id]).total =
                current_checkout[1].total
          /\ current_cart = last.cart
    /\ (last.function = "create_checkout" /\ last.cart # << >>)
       => /\ last.result.success
          /\ current_checkout # None
          /\ current_checkout[1].id \in DOMAIN sessions
          /\ sessions[current_checkout[1].id].status = "ready_for_complete"
          /\ same_items(sessions[current_checkout[1].id].line_items, last.cart)
          /\ current_cart = last.cart
    /\ (last.function = "complete_checkout" /\ last.checkout_session # None)
       => /\ last.result.success
          /\ sessions[last.checkout_session[1].id].status = "completed"
          /\ current_cart = << >>
          /\ current_checkout = None
          /\ pc = "done" => /\ result[1].cart = << >>
                            /\ result[1].checkout_session = None

\* the fourth turn of a conversation that began with no cart: the discounted
\* session of [P1 x 1] with total 900, and the session that create_checkout
\* stored, completed
C14_Witness ==
    /\ turns = 4
    /\ pc = "done"
    /\ last.function = "complete_checkout"
    /\ last.result.success
    /\ last.cart = << [id |-> "P1", price |-> 1000, quantity |-> 1] >>
    /\ Cardinality(DOMAIN sessions) = 2
    /\ sessions[1].applied = << [code |-> "10OFF", amount |-> 100] >>
    /\ calculate_totals(sessions[1]).total = 900
    /\ sessions[2].status = "completed"
    /\ result[1].cart = << >>
    /\ result[1].checkout_session = None

(***************************************************************************)
(* The session store behind the HTTP handlers.                             *)
(***************************************************************************)
\* the codes of a request that are in the discount table, in order
valid_codes(codes) == SelectSeq(codes, LAMBDA c : c \in DiscountCodes)

\* no element of a sequence occurs twice
no_duplicates(s) == \A i, j \in 1..Len(s) : s[i] = s[j] => i = j

\* C15: discounts are last-wins.  In every reachable state of a stored
\* session the applied list has at most one element, whose code is among the
\* recorded codes, each recorded once, and the total is computed from that
\* element only; applying two codes of the table one after the other leaves
\* the applied list with the second alone and the recorded codes with both;
\* an update with codes of the table leaves the last of them applied alone.
C15_DiscountsLastWins ==
    /\ [](\A id \in DOMAIN sessions :
            LET session == sessions[id]
                subtotal == LineItemsSubtotal(session.line_items)
            IN /\ Len(session.applied) <= 1
               /\ no_duplicates(session.codes)
               /\ session.codes # << >> => Len(session.applied) = 1
               /\ session.applied # << >> =>
                     /\ session.applied[1].code \in Range(session.codes)
                     /\ calculate_totals(session).total =
                           Max(0, subtotal - session.applied[1].amount)
               /\ \A c1, c2 \in DiscountCodes :
                     LET r == apply_discount(apply_discount(session, c1).session, c2)
                     IN /\ ~r.raised
                        /\ Len(r.session.applied) = 1
                        /\ r.session.applied[1].code = c2
                        /\ r.session.applied[1].amount = discount_amount(c2, subtotal)
                        /\ Range(r.session.codes) = Range(session.codes) \cup {c1, c2}
                        /\ no_duplicates(r.session.codes)
                        /\ calculate_totals(r.session).total =
                              Max(0, subtotal - discount_amount(c2, subtotal)))
    /\ [][(/\ requests' = requests + 1
           /\ http'.op = "update"
           /\ ~http'.raised
           /\ http'.discounts # None
           /\ valid_codes(http'.discounts[1]) # << >>)
          => LET valid == valid_codes(http'.discounts[1])
                 after == sessions'[http'.id]
             IN /\ Len(after.applied) = 1
                /\ after.applied[1].code = valid[Len(valid)]
                /\ Range(after.codes) = Range(sessions[http'.id].codes) \cup Range(valid)
                /\ calculate_totals(after).total =
                      Max(0, LineItemsSubtotal(after.line_items) - after.applied[1].amount)]_vars

\* a session discounted with 10OFF and then with SAVE20 by two updates
C15_Witness ==
    /\ http.op = "update"
    /\ http.discounts = Some(<< "SAVE20" >>)
    /\ http.id \in DOMAIN sessions
    /\ sessions[http.id].codes = << "10OFF", "SAVE20" >>
    /\ sessions[http.id].applied = << [code |-> "SAVE20", amount |-> 400] >>

\* C16: status draft is never observable: every session in the store, under
\* every interleaving of create, get, update and complete requests, has
\* status ready_for_complete or completed, and so has the response built from
\* it; a create adds its session to the store with the line items, the buyer
\* of the request and status ready_for_complete already set.
C16_DraftNeverStored ==
    /\ [](\A id \in DOMAIN sessions :
            /\ sessions[id].status \in {"ready_for_complete", "completed"}
            /\ to_ucp_response(sessions[id]).status \in {"ready_for_complete", "completed"})
    /\ [][(requests' = requests + 1 /\ http'.op = "create" /\ ~http'.raised)
          => (/\ http'.id \notin DOMAIN sessions
              /\ DOMAIN sessions' = DOMAIN sessions \cup {http'.id}
              /\ sessions'[http'.id].status = "ready_for_complete"
              /\ sessions'[http'.id].buyer = http'.buyer
              /\ \A i \in 1..Len(sessions'[http'.id].line_items) :
                    sessions'[http'.id].line_items[i].item \in CatalogIds)]_vars

\* a create that stored its session, with a buyer and line items, beside a
\* session that a request before it completed
C16_Witness ==
    /\ http.op = "create"
    /\ ~http.raised
    /\ sessions[http.id].status = "ready_for_complete"
    /\ sessions[http.id].line_items # << >>
    /\ sessions[http.id].buyer = Some("Alice")
    /\ \E j \in DOMAIN sessions : sessions[j].status = "completed"

\* the line_items of a request that name a product the catalog does not have
names_unknown_product(line_items) ==
    \E i \in 1..Len(line_items) : line_items[i].id \notin CatalogIds

\* C17: create_checkout_session with a line item whose product is not in the
\* catalog fails with NotFound and stores nothing, also when earlier line
\* items of the request resolved: the store is what it was before the call.
C17_FailedCreateStoresNothing ==
    /\ [](\A line_items \in RequestLineItems : \A buyer \in RequestBuyers :
            LET r == create_checkout_session(sessions, line_items, buyer)
            IN r.raised <=> names_unknown_product(line_items))
    /\ [](\A line_items \in RequestLineItems : \A buyer \in RequestBuyers :
            names_unknown_product(line_items) =>
               LET r == create_checkout_session(sessions, line_items, buyer)
               IN /\ r.error = "NotFound"
                  /\ r.store = sessions)
    /\ [][(requests' = requests + 1 /\ http'.op = "create" /\ http'.raised)
          => (http'.error = "NotFound" /\ sessions' = sessions)]_vars

\* a create that failed on a store that holds a session
C17_Witness ==
    /\ http.op = "create"
    /\ http.raised
    /\ http.error = "NotFound"
    /\ sessions # << >>

\* C18: update_checkout_session applies the codes of a request best-effort:
\* the codes of the table are applied in order and the others skipped, the
\* update does not fail because of a code, and the buyer of the request is
\* set all the same.
C18_CodesBestEffort ==
    /\ [](\A id \in DOMAIN sessions : \A codes \in RequestCodes :
            \A buyer \in RequestBuyers :
               LET r == update_checkout_session(sessions, id, None, Some(codes), buyer)
                   after == r.store[id]
                   valid == valid_codes(codes)
               IN /\ ~r.raised
                  /\ after.codes = apply_codes(sessions[id], valid).codes
                  /\ after.applied = apply_codes(sessions[id], valid).applied
                  /\ Range(after.codes) = Range(sessions[id].codes) \cup Range(valid)
                  /\ valid # << >> => after.applied[1].code = valid[Len(valid)]
                  /\ valid = << >> => after.applied = sessions[id].applied
                  /\ buyer # None => after.buyer = buyer
                  /\ buyer = None => after.buyer = sessions[id].buyer
                  /\ after.line_items = sessions[id].line_items
                  /\ after.status = sessions[id].status)
    /\ [][(/\ requests' = requests + 1
           /\ http'.op = "update"
           /\ http'.discounts # None)
          => (/\ http'.raised => (http'.error = "NotFound")
              /\ ~http'.raised =>
                    LET valid == valid_codes(http'.discounts[1])
                        after == sessions'[http'.id]
                    IN /\ Range(after.codes) =
                             Range(sessions[http'.id].codes) \cup Range(valid)
                       /\ valid # << >> => after.applied[1].code = valid[Len(valid)]
                       /\ valid = << >> => after.applied = sessions[http'.id].applied
                       /\ http'.buyer # None => after.buyer = http'.buyer)]_vars

\* an update with an invalid code before a valid one and with a buyer, on a
\* session that had no buyer
C18_Witness ==
    /\ http.op = "update"
    /\ ~http.raised
    /\ http.discounts = Some(<< "BOGUS", "10OFF" >>)
    /\ http.buyer = Some("Alice")
    /\ sessions[http.id].codes = << "10OFF" >>
    /\ sessions[http.id].applied # << >>
    /\ sessions[http.id].buyer = Some("Alice")

\* the place of a status on the line draft -> ready_for_complete -> completed
status_rank(status) ==
    CASE status = "draft" -> 0
      [] status = "ready_for_complete" -> 1
      [] status = "completed" -> 2

\* C19: the status of a stored session only moves forward along draft ->
\* ready_for_complete -> completed: no step removes a session or moves its
\* status back, an update and apply_discount leave the status as it is, a
\* status changes only in a complete request that succeeded, and a completed
\* session stays completed under every later request.
C19_StatusOnlyForward ==
    /\ [](\A id \in DOMAIN sessions : \A code \in DiscountCodes \cup {"BOGUS"} :
            apply_discount(sessions[id], code).session.status = sessions[id].status)
    /\ [][\A id \in DOMAIN sessions :
            /\ id \in DOMAIN sessions'
            /\ status_rank(sessions'[id].status) >= status_rank(sessions[id].status)
            /\ sessions[id].status = "completed" => sessions'[id].status = "completed"
            /\ http'.op = "update" => sessions'[id].status = sessions[id].status
            /\ sessions'[id].status # sessions[id].status
                  => (/\ http'.op = "complete"
                      /\ ~http'.raised
                      /\ http'.id = id
                      /\ sessions'[id].status = "completed")]_vars

\* an update with codes and a buyer that succeeded on a completed session
\* and left it completed
C19_Witness ==
    /\ http.op = "update"
    /\ ~http.raised
    /\ http.discounts # None
    /\ http.buyer # None
    /\ sessions[http.id].status = "completed"
    /\ sessions[http.id].applied # << >>
    /\ sessions[http.id].buyer = http.buyer

\* the dispatcher call whose precondition did not hold: apply_discount or
\* create_checkout with an empty cart, complete_checkout with no reference
precondition_failed(call) ==
    \/ call.function \in {"apply_discount", "create_checkout"} /\ call.cart = << >>
    \/ call.function = "complete_checkout" /\ call.checkout_session = None

\* C20: a dispatcher call whose precondition does not hold (apply_discount or
\* create_checkout with an empty cart, complete_checkout with no reference)
\* returns success false with an error and no data, creates and modifies no
\* session of the store, and returns the cart and the reference it was given;
\* the loop's cart and reference are after it what they were before.
C20_PreconditionFailureChangesNothing ==
    precondition_failed(last)
    => /\ ~last.result.success
       /\ last.result.error = "InvalidArgument"
       /\ last.result.data = None
       /\ last.result.store = last.store
       /\ last.result.cart = last.cart
       /\ last.result.checkout_session = last.checkout_session
       /\ (pc \in {"tools", "loop"} /\ dispatched > 0)
             => /\ sessions = last.store
                /\ current_cart = last.cart
                /\ current_checkout = last.checkout_session

\* complete_checkout dispatched with no reference, a cart and a stored session
C20_Witness ==
    /\ last.function = "complete_checkout"
    /\ last.checkout_session = None
    /\ last.cart # << >>
    /\ last.store # << >>
    /\ ~last.result.success
    /\ current_cart = last.cart

(***************************************************************************)
(* The rounds of the loop: order of the tool calls, the final answer.      *)
(***************************************************************************)
\* the tool messages at the end of the list, after the model's last reply
round_results == Len(messages) - 1

\* C21: the tool calls of a reply are dispatched one after the other in the
\* order received, each with the cart, the reference and the store the call
\* before it returned (the first of a turn with the caller's); every dispatch
\* appends one record and one tool message under the id of its call; and the
\* next model call comes only when every call of the reply has been
\* dispatched and answered by a tool message.
C21_ToolCallsInOrder ==
    /\ [][(dispatched' = dispatched + 1)
          => (/\ last'.function = Head(tool_calls).name
              /\ last'.arguments = Head(tool_calls).arguments
              /\ tool_calls' = Tail(tool_calls)
              /\ model_calls' = model_calls
              /\ dispatched > 0 => (/\ last'.cart = last.result.cart
                                    /\ last'.checkout_session = last.result.checkout_session
                                    /\ last'.store = last.result.store)
              /\ dispatched = 0 => (/\ last'.cart = cart
                                    /\ last'.checkout_session = checkout_session)
              /\ Len(function_calls_made') = Len(function_calls_made) + 1
              /\ SubSeq(function_calls_made', 1, dispatched) = function_calls_made
              /\ function_calls_made'[dispatched'] =
                    call_record(Head(tool_calls).name, Head(tool_calls).arguments,
                                last'.result)
              /\ Len(messages') = Len(messages) + 1
              /\ SubSeq(messages', 1, Len(messages)) = messages
              /\ messages'[Len(messages')].role = "tool"
              /\ messages'[Len(messages')].tool_call_id = Head(tool_calls).id
              /\ messages'[Len(messages')].success = last'.result.success)]_vars
    /\ [][(model_calls' = model_calls + 1)
          => (/\ tool_calls = << >>
              /\ messages # << >>
                    => round_results = Len(messages[1].tool_call_ids))]_vars
    /\ [](pc \in {"tools", "loop"} /\ messages # << >>
          => (/\ messages[1].role = "assistant"
              /\ round_results + Len(tool_calls) = Len(messages[1].tool_call_ids)
              /\ round_results <= dispatched
              /\ \A k \in 1..round_results :
                    /\ messages[k + 1].role = "tool"
                    /\ messages[k + 1].tool_call_id = messages[1].tool_call_ids[k]
                    /\ messages[k + 1].success =
                          function_calls_made[dispatched - round_results + k].success
              /\ \A k \in 1..Len(tool_calls) :
                    tool_calls[k].id = messages[1].tool_call_ids[round_results + k]))

\* the second round of a turn has run its two tool calls: the discount that
\* created a session and the completion of that session, which got the
\* reference the discount returned
C21_Witness ==
    /\ pc = "loop"
    /\ iteration = 2
    /\ round_results = 2
    /\ dispatched = 3
    /\ function_calls_made[2].function = "apply_discount"
    /\ function_calls_made[2].success
    /\ last.function = "complete_checkout"
    /\ last.checkout_session # None
    /\ last.result.success
    /\ messages[2].tool_call_id = 2
    /\ messages[3].tool_call_id = 3

\* C22 as stated: the text of a reply without tool calls is the response
\* returned.
C22_ReplyTextIsResponse ==
    (outcome = "answered" /\ pc = "done")
    => result[1].response = assistant_message[1]

\* C22, amended: a reply without a tool-call request stops the loop at once:
\* the turn is done with that model call its last, no tool call is queued or
\* dispatched after it, and the turn returns the loop's cart, reference and
\* records with the reply's text as the response, or with the stock line in
\* its place when the reply has no text.
C22_AnswerStopsLoop ==
    /\ []((outcome = "answered")
          => (/\ pc = "done"
              /\ tool_calls = << >>
              /\ model_calls = iteration
              /\ messages = << assistant_msg_dict(<< >>) >>
              /\ result # None
              /\ result[1].response = (IF assistant_message[1] = ""
                                       THEN "stock line"
                                       ELSE assistant_message[1])
              /\ result[1].cart = current_cart
              /\ result[1].checkout_session = current_checkout
              /\ result[1].function_calls = function_calls_made
              /\ Len(function_calls_made) = dispatched
              /\ dispatched > 0 => (/\ result[1].cart = last.result.cart
                                    /\ result[1].checkout_session =
                                          last.result.checkout_session
                                    /\ sessions = last.result.store)))
    /\ [][(outcome = "answered")
          => \/ (/\ model_calls' = model_calls
                 /\ dispatched' = dispatched
                 /\ sessions' = sessions
                 /\ result' = result
                 /\ outcome' = outcome)
             \/ (turns' = turns + 1 /\ pc' = "loop")]_vars

\* the model answers with a text in its third round, after tool calls that
\* left a cart and a reference the caller did not give
C22_Witness ==
    /\ outcome = "answered"
    /\ iteration = 3
    /\ dispatched >= 2
    /\ assistant_message = Some("answer")
    /\ result[1].response = "answer"
    /\ result[1].cart # cart
    /\ result[1].checkout_session # None

(***************************************************************************)
(* The cart across dispatcher calls.                                       *)
(***************************************************************************)
\* no two entries of a cart have the same product id
unique_by_id(cart_) ==
    \A i, j \in 1..Len(cart_) : cart_[i].id = cart_[j].id => i = j

\* C23: the cart is unique by product id: the caller's first cart is, and so
\* is, after every dispatcher call of every turn, the cart the call returned,
\* the loop's cart, the caller's list and the cart a turn returns.
C23_CartUniqueByProduct ==
    /\ unique_by_id(current_cart)
    /\ unique_by_id(cart)
    /\ unique_by_id(last.cart)
    /\ unique_by_id(last.result.cart)
    /\ result # None => unique_by_id(result[1].cart)
    /\ \A call \in TurnCalls :
          unique_by_id(execute_ucp_function(call.name, call.arguments, current_cart,
                                            current_checkout, sessions).cart)

\* P1 added again to a cart that holds P1 and P2: still two entries
C23_Witness ==
    /\ last.function = "add_to_cart"
    /\ last.arguments.product_id = "P1"
    /\ last.result.success
    /\ Len(last.cart) = 2
    /\ Len(current_cart) = 2
    /\ entries_of(last.cart, "P1") # {}
    /\ entries_of(last.cart, "P2") # {}

\* C24: every entry of the cart has quantity >= 1 after every dispatcher
\* call, whatever integer quantity add_to_cart was given.
C24_QuantitiesAtLeastOne ==
    \A i \in 1..Len(current_cart) : current_cart[i].quantity >= 1

(***************************************************************************)
(* Requests on one session at the same time.  update_checkout is an async  *)
(* function; update_checkout_session, which it calls after its one await,  *)
(* is synchronous code, taken here statement by statement.                 *)
(***************************************************************************)
\* the handler given every request at once, as threads would run it
event_loop_free_unlocked(h) == TRUE

\* the event loop takes up a request when the handler it runs has returned
\* or awaits; update_checkout has no await after request.json()
event_loop_free(h) == h = NoHandler

\* the line_items of the request bodies when requests meet on one session
RaceLineItems ==
    {<< LineItem("P1", 1), LineItem("P2", 1) >>,
     << LineItem("P2", 3), LineItem(UnknownProduct, 1) >>}

\* the discounts["codes"] of those bodies
RaceCodes == {<< "BOGUS", "10OFF" >>}

\* the phase after the line items: the codes if the body has any, else the
\* buyer
after_line_items(h) ==
    [h EXCEPT !.phase = IF h.discounts # None /\ h.discounts[1] # << >>
                        THEN "discounts" ELSE "buyer",
              !.items_left = << >>,
              !.codes_left = IF h.discounts # None THEN h.discounts[1] ELSE << >>]

\* a request other than an update is served: the event loop is free
RaceServe ==
    /\ event_loop_free(handler)
    /\ \/ HttpCreate
       \/ HttpGet
       \/ HttpComplete

\* PUT /checkout-sessions/{session_id} up to "session.line_items = []"
UpdateBegin ==
    /\ event_loop_free(handler)
    /\ requests < MaxRequests
    /\ \E session_id \in RequestIds,
          line_items \in {None} \cup {Some(l) : l \in RaceLineItems},
          discounts \in {None} \cup {Some(c) : c \in RaceCodes},
          buyer \in RequestBuyers :
          IF get_checkout_session(sessions, session_id) = None
          THEN /\ http' = BodyResponse("update", session_id, discounts, buyer,
                                       [raised |-> TRUE, error |-> "NotFound"])
               /\ requests' = requests + 1
               /\ UNCHANGED << sessions, handler >>
          ELSE LET h == [id |-> session_id, phase |-> "line_items",
                         line_items |-> line_items, discounts |-> discounts,
                         buyer |-> buyer,
                         items_left |-> IF line_items # None
                                        THEN line_items[1] ELSE << >>,
                         codes_left |-> << >>, start |-> sessions]
               IN /\ handler' = IF h.items_left # << >> THEN h ELSE after_line_items(h)
                  /\ sessions' = IF h.items_left # << >>
                                 THEN [sessions EXCEPT ![session_id].line_items = << >>]
                                 ELSE sessions
                  /\ UNCHANGED << requests, http >>
    /\ UNCHANGED chat_vars

\* one pass of "for item in line_items: session.add_line_item(...)"
UpdateLineItem ==
    /\ handler.phase = "line_items"
    /\ handler.items_left # << >>
    /\ LET item == Head(handler.items_left)
           r == add_line_item(sessions[handler.id], item.id, item.quantity)
       IN IF r.raised
          THEN /\ http' = BodyResponse("update", handler.id, handler.discounts,
                                       handler.buyer, r)
               /\ requests' = requests + 1
               /\ handler' = NoHandler
               /\ UNCHANGED sessions
          ELSE /\ sessions' = put_session(sessions, r.session)
               /\ handler' = IF Tail(handler.items_left) # << >>
                             THEN [handler EXCEPT !.items_left = Tail(@)]
                             ELSE after_line_items(handler)
               /\ UNCHANGED << requests, http >>
    /\ UNCHANGED chat_vars

\* one pass of "for code in discounts["codes"]"
UpdateCode ==
    /\ handler.phase = "discounts"
    /\ handler.codes_left # << >>
    /\ sessions' = put_session(sessions,
                               apply_discount(sessions[handler.id],
                                              Head(handler.codes_left)).session)
    /\ handler' = IF Tail(handler.codes_left) # << >>
                  THEN [handler EXCEPT !.codes_left = Tail(@)]
                  ELSE [handler EXCEPT !.codes_left = << >>, !.phase = "buyer"]
    /\ UNCHANGED << requests, http, chat_vars >>

\* "if buyer: session.set_buyer(...)", the return and the response
UpdateEnd ==
    /\ handler.phase = "buyer"
    /\ sessions' = IF handler.buyer # None
                   THEN put_session(sessions, set_buyer(sessions[handler.id],
                                                        handler.buyer[1]))
                   ELSE sessions
    /\ http' = BodyResponse("update", handler.id, handler.discounts, handler.buyer,
                            [raised |-> FALSE, error |-> ""])
    /\ requests' = requests + 1
    /\ handler' = NoHandler
    /\ UNCHANGED chat_vars

NextRace ==
    \/ RaceServe
    \/ UpdateBegin
    \/ UpdateLineItem
    \/ UpdateCode
    \/ UpdateEnd

SpecRace == InitStore /\ [][NextRace]_vars

\* an update has emptied the line items of its session and not yet added
\* all those of its body
partially_replaced == handler.phase = "line_items"

\* C25 as stated: nothing keeps the requests on a session apart, so that
\* while an update has replaced part of the line items of its session
\* another request can be served, and sees or overwrites that part.
C25_RequestsInterleave ==
    (partially_replaced /\ requests < MaxRequests) => ENABLED RaceServe

\* C25, amended: requests on the session store are served one at a time.
\* From the moment an update has begun to replace the line items of a
\* session until it responds, no other request is served and no other
\* session changes; what the update leaves in the store and what it
\* responds are what update_checkout_session gives when run alone on the
\* store it found, so that the store after any requests is the store their
\* order of service produces.
C25_RequestsServedInTurn ==
    /\ [][(handler # NoHandler)
          => (/\ \/ (/\ handler' # NoHandler
                     /\ handler'.id = handler.id
                     /\ handler'.start = handler.start
                     /\ http' = http
                     /\ requests' = requests)
                 \/ (/\ handler' = NoHandler
                     /\ requests' = requests + 1
                     /\ http'.op = "update"
                     /\ http'.id = handler.id)
              /\ DOMAIN sessions' = DOMAIN sessions
              /\ \A id \in DOMAIN sessions :
                    id # handler.id => sessions'[id] = sessions[id])]_vars
    /\ [][(handler # NoHandler /\ handler' = NoHandler)
          => LET r == update_checkout_session(handler.start, handler.id,
                                              handler.line_items,
                                              handler.discounts, handler.buyer)
             IN /\ sessions' = r.store
                /\ http'.raised = r.raised
                /\ http'.error = r.error]_vars
    /\ [](partially_replaced => ~ENABLED RaceServe)

\* an update, the third request, has put the first of the two line items of
\* its body in the place of those its session had
C25_Witness ==
    /\ partially_replaced
    /\ requests = 2
    /\ Len(handler.items_left) = 1
    /\ Len(sessions[handler.id].line_items) = 1
    /\ handler.start[handler.id].line_items # << >>
    /\ sessions[handler.id].line_items[1] # handler.start[handler.id].line_items[1]

(***************************************************************************)
(* The turn of a server that has no model.                                 *)
(***************************************************************************)
\* C26: when litellm is unavailable or no API key is configured a turn makes
\* no model call and no dispatcher call, queues no tool call, touches no
\* session, and returns the message that says so with the cart and the
\* reference the caller gave and an empty list of tool calls.
C26_UnconfiguredReturnsInput ==
    /\ (outcome = "unconfigured")
       => /\ ~configured
          /\ pc \in {"done", "idle"}
          /\ model_calls = 0
          /\ dispatched = 0
          /\ iteration = 0
          /\ tool_calls = << >>
          /\ messages = << >>
          /\ function_calls_made = << >>
          /\ last = NoCall
          /\ sessions = << >>
          /\ result # None
          /\ result[1].response = "not configured"
          /\ result[1].function_calls = << >>
          /\ result[1].cart = cart
          /\ pc = "done" => result[1].checkout_session = checkout_session
    /\ ~configured => (outcome \in {"running", "unconfigured"} /\ model_calls = 0)

\* the second turn of a server without a model, the caller holding a cart
\* and a reference
C26_Witness ==
    /\ outcome = "unconfigured"
    /\ pc = "done"
    /\ turns = 2
    /\ cart # << >>
    /\ checkout_session # None
    /\ result[1].cart = cart
    /\ result[1].checkout_session = checkout_session

(***************************************************************************)
(* The session store over the requests.                                    *)
(***************************************************************************)
\* C27: the session store only grows and ids are stable: every stored
\* session has the id it is stored under, no request removes a session or
\* changes its id, a create that succeeds adds exactly one session, under an
\* id the store did not have, and no other request adds one.
C27_StoreGrowsIdsStable ==
    /\ [](\A id \in DOMAIN sessions :
            /\ sessions[id].id = id
            /\ to_ucp_response(sessions[id]).id = id)
    /\ [][/\ DOMAIN sessions \subseteq DOMAIN sessions'
          /\ \A id \in DOMAIN sessions : sessions'[id].id = sessions[id].id
          /\ (http'.op = "create" /\ ~http'.raised /\ requests' = requests + 1)
                => (/\ Cardinality(DOMAIN sessions') = Cardinality(DOMAIN sessions) + 1
                    /\ DOMAIN sessions' \ DOMAIN sessions = {http'.id})
          /\ ~(http'.op = "create" /\ ~http'.raised)
                => DOMAIN sessions' = DOMAIN sessions]_vars

\* a complete that succeeded on one of two stored sessions: both are still
\* there, under their ids
C27_Witness ==
    /\ http.op = "complete"
    /\ ~http.raised
    /\ DOMAIN sessions = {1, 2}
    /\ sessions[http.id].status = "completed"
    /\ sessions[1].id = 1
    /\ sessions[2].id = 2

\* the line items a session has when it holds exactly the requested
\* (product id, quantity) pairs, in their order
requested_line_items(line_items) ==
    [k \in 1..Len(line_items) |->
        [item |-> line_items[k].id,
         price |-> PRODUCT_CATALOG[line_items[k].id],
         quantity |-> line_items[k].quantity,
         subtotal |-> PRODUCT_CATALOG[line_items[k].id] * line_items[k].quantity,
         total |-> PRODUCT_CATALOG[line_items[k].id] * line_items[k].quantity]]

\* the bodies whose line_items are non-empty and name catalog products only
ResolvableLineItems ==
    {l \in RequestLineItems \cup RaceLineItems :
        l # << >> /\ ~names_unknown_product(l)}

\* C28: update_checkout_session with a non-empty list of line items whose
\* products all exist replaces the full line-item set: the update succeeds
\* and the session's line items are then the requested (product id,
\* quantity) pairs, in order, and nothing else, whatever they were before
\* and whatever codes and buyer come with them.
C28_UpdateReplacesLineItems ==
    /\ [](\A id \in DOMAIN sessions : \A line_items \in ResolvableLineItems :
            \A discounts \in {None} \cup {Some(c) : c \in RaceCodes} :
               \A buyer \in RequestBuyers :
                  LET r == update_checkout_session(sessions, id, Some(line_items),
                                                   discounts, buyer)
                  IN /\ ~r.raised
                     /\ r.store[id].line_items = requested_line_items(line_items)
                     /\ \A other \in DOMAIN sessions \ {id} :
                           r.store[other] = sessions[other])
    /\ [][(/\ handler # NoHandler
           /\ handler' = NoHandler
           /\ handler.line_items # None
           /\ ~http'.raised)
          => sessions'[handler.id].line_items =
                requested_line_items(handler.line_items[1])]_vars

\* an update with two line items and a code has responded, on the session
\* the request before it created
C28_Witness ==
    /\ handler = NoHandler
    /\ http.op = "update"
    /\ ~http.raised
    /\ sessions[http.id].line_items =
          requested_line_items(<< LineItem("P1", 1), LineItem("P2", 1) >>)
    /\ sessions[http.id].applied # << >>
    /\ requests = 2

(***************************************************************************)
(* The dispatcher's apply_discount and the session it creates or updates.  *)
(***************************************************************************)
\* what apply_discount leaves applied on a session rebuilt from a cart: the
\* code with its amount on the cart's subtotal if the table has the code
applied_from_cart(before, code, cart_) ==
    IF code \in DiscountCodes
    THEN << [code |-> code, amount |-> discount_amount(code, cart_subtotal(cart_))] >>
    ELSE before

\* C29: the dispatcher's apply_discount with a non-empty cart creates a new
\* session from the cart when no reference is held; when the reference of a
\* stored session is held it updates that session: the returned reference
\* has the same id, the store has no new session, the line items are rebuilt
\* from the cart before the code is applied, and the amount of the discount
\* is the one of the cart's subtotal.  (A held reference to a session the
\* store does not have fails NotFound and changes nothing.)
C29_DiscountCreatesOrUpdates ==
    (last.function = "apply_discount" /\ last.cart # << >>)
    => LET code == Upper(last.arguments.code)
           held == last.checkout_session
           r == last.result
           wanted == requested_line_items(cart_line_items(last.cart))
       IN /\ sessions = r.store
          /\ r.cart = last.cart
          /\ held = None
                => /\ r.success
                   /\ r.checkout_session # None
                   /\ r.checkout_session[1].id \notin DOMAIN last.store
                   /\ DOMAIN r.store = DOMAIN last.store \cup {r.checkout_session[1].id}
                   /\ \A id \in DOMAIN last.store : r.store[id] = last.store[id]
                   /\ r.store[r.checkout_session[1].id].line_items = wanted
                   /\ r.store[r.checkout_session[1].id].status = "ready_for_complete"
                   /\ r.store[r.checkout_session[1].id].applied =
                         applied_from_cart(<< >>, code, last.cart)
                   /\ r.checkout_session[1] =
                         to_ucp_response(r.store[r.checkout_session[1].id])
          /\ (held # None /\ held[1].id \in DOMAIN last.store)
                => /\ r.success
                   /\ r.checkout_session # None
                   /\ r.checkout_session[1].id = held[1].id
                   /\ DOMAIN r.store = DOMAIN last.store
                   /\ \A id \in DOMAIN last.store \ {held[1].id} :
                         r.store[id] = last.store[id]
                   /\ r.store[held[1].id].line_items = wanted
                   /\ r.store[held[1].id].status = last.store[held[1].id].status
                   /\ r.store[held[1].id].applied =
                         applied_from_cart(last.store[held[1].id].applied, code,
                                           last.cart)
                   /\ r.checkout_session[1] = to_ucp_response(r.store[held[1].id])
          /\ (held # None /\ held[1].id \notin DOMAIN last.store)
                => /\ ~r.success
                   /\ r.error = "NotFound"
                   /\ r.store = last.store
                   /\ r.checkout_session = held

\* a discount applied with the reference of a stored session held, after
\* the cart has changed: the line items of the session are rebuilt and the
\* amount is the one of the new subtotal
C29_Witness ==
    /\ last.function = "apply_discount"
    /\ last.checkout_session # None
    /\ last.checkout_session[1].id \in DOMAIN last.store
    /\ last.result.success
    /\ Upper(last.arguments.code) = "10OFF"
    /\ last.store[last.checkout_session[1].id].line_items #
          sessions[last.checkout_session[1].id].line_items
    /\ last.store[last.checkout_session[1].id].applied # << >>
    /\ sessions[last.checkout_session[1].id].applied #
          last.store[last.checkout_session[1].id].applied

(***************************************************************************)
(* The line items of the stored sessions under every operation that        *)
(* changes them.                                                           *)
(***************************************************************************)
\* the quantity argument of update_line_item
NewQuantities == {None, Some(3), Some(0)}

\* session.update_line_item(line_item_id, quantity) on a stored session
CallUpdateLineItem ==
    /\ requests < MaxRequests
    /\ \E session_id \in DOMAIN sessions :
          \E line_item_id \in 0..Len(sessions[session_id].line_items),
             quantity \in NewQuantities :
             LET r == update_line_item(sessions[session_id], line_item_id, quantity)
             IN /\ sessions' = put_session(sessions, r.session)
                /\ http' = [Response("update_line_item", session_id, None, r)
                               EXCEPT !.quantity = quantity]
    /\ requests' = requests + 1
    /\ UNCHANGED << chat_vars, handler >>

NextLineItems ==
    \/ HttpCreate
    \/ HttpUpdate
    \/ CallUpdateLineItem

SpecLineItems == InitStore /\ [][NextLineItems]_vars

\* the totals of a line item are its price times its quantity
totals_current(line_item) ==
    /\ line_item.subtotal = line_item.price * line_item.quantity
    /\ line_item.total = line_item.price * line_item.quantity

\* C30: the totals of a line item are never stale: in every stored session,
\* after add_line_item, update_line_item and update_checkout_session alike,
\* the subtotal and the total of each line item are its price (the price of
\* its product) times its quantity; and update_line_item with a quantity
\* leaves the line item it names with that quantity and the others as they
\* were.
C30_LineItemTotalsCurrent ==
    /\ [](\A id \in DOMAIN sessions :
            \A k \in 1..Len(sessions[id].line_items) :
               /\ totals_current(sessions[id].line_items[k])
               /\ sessions[id].line_items[k].price =
                     PRODUCT_CATALOG[sessions[id].line_items[k].item])
    /\ [][(http'.op = "update_line_item" /\ requests' = requests + 1 /\ ~http'.raised)
          => (/\ Len(sessions'[http'.id].line_items) = Len(sessions[http'.id].line_items)
              /\ \A k \in 1..Len(sessions[http'.id].line_items) :
                    LET old == sessions[http'.id].line_items[k]
                        new == sessions'[http'.id].line_items[k]
                    IN /\ new.item = old.item
                       /\ new.price = old.price
                       /\ totals_current(new)
                       /\ http'.quantity = None => new = old
                       /\ new # old => new.quantity = http'.quantity[1])]_vars

\* update_line_item has given the quantity 3 to a line item of price 1000
C30_Witness ==
    /\ http.op = "update_line_item"
    /\ ~http.raised
    /\ http.quantity = Some(3)
    /\ \E k \in 1..Len(sessions[http.id].line_items) :
          /\ sessions[http.id].line_items[k].quantity = 3
          /\ sessions[http.id].line_items[k].subtotal = 3000
          /\ sessions[http.id].line_items[k].total = 3000

(***************************************************************************)
(* Completing twice.                                                       *)
(***************************************************************************)
\* C31: completing a session that is already completed is not guarded:
\* complete_checkout_session on a stored session whose status is completed
\* succeeds and leaves the session, and the store, exactly as they were; so
\* completing a session twice gives the state completing it once gives.
C31_CompleteTwiceIsCompleteOnce ==
    /\ [](\A id \in DOMAIN sessions :
            LET once == complete_checkout_session(sessions, id)
                twice == complete_checkout_session(once.store, id)
            IN /\ ~once.raised
               /\ ~twice.raised
               /\ twice.store = once.store
               /\ sessions[id].status = "completed" => once.store = sessions)
    /\ [][(/\ http'.op = "complete"
           /\ requests' = requests + 1
           /\ http'.status = Some("completed"))
          => (~http'.raised /\ sessions' = sessions)]_vars

\* a complete request has been served on a session that a request before it
\* had completed
C31_Witness ==
    /\ http.op = "complete"
    /\ http.status = Some("completed")
    /\ ~http.raised
    /\ sessions[http.id].status = "completed"
    /\ sessions[http.id].line_items # << >>

(***************************************************************************)
(* view_cart.                                                              *)
(***************************************************************************)
\* the sum of f over the entries of a cart, entry by entry from the last
RECURSIVE sum_of_entries(_, _, _)
sum_of_entries(cart_, n, priced) ==
    IF n = 0
    THEN 0
    ELSE sum_of_entries(cart_, n - 1, priced)
         + (IF priced THEN cart_[n].price * cart_[n].quantity ELSE cart_[n].quantity)

\* C32: view_cart is a pure read: it succeeds and reports the subtotal, the
\* sum of price times quantity over the cart entries, the number of entries
\* and the sum of the quantities; the cart and the reference it returns are
\* the ones it was given, the session store is unchanged, and the loop's
\* cart and reference are after it what they were before.
C32_ViewCartPureRead ==
    last.function = "view_cart"
    => /\ last.result.success
       /\ last.result.error = ""
       /\ last.result.data =
             Some([subtotal |-> sum_of_entries(last.cart, Len(last.cart), TRUE),
                   item_count |-> Len(last.cart),
                   total_items |-> sum_of_entries(last.cart, Len(last.cart), FALSE)])
       /\ last.result.cart = last.cart
       /\ last.result.checkout_session = last.checkout_session
       /\ last.result.store = last.store
       /\ (pc \in {"tools", "loop"} /\ dispatched > 0)
             => /\ sessions = last.store
                /\ current_cart = last.cart
                /\ current_checkout = last.checkout_session

\* view_cart dispatched on a cart of three pieces of one product, while a
\* session is stored and its reference held
C32_Witness ==
    /\ last.function = "view_cart"
    /\ Len(last.cart) = 1
    /\ last.cart[1].quantity = 3
    /\ last.result.data[1].subtotal = 3000
    /\ last.result.data[1].total_items = 3
    /\ last.checkout_session # None
    /\ last.store # << >>
    /\ current_cart = last.cart

(***************************************************************************)
(* The list sent to the first model call.                                  *)
(***************************************************************************)
\* the caller sends a message and a history of prior turns
InitPrompt ==
    /\ InitState
    /\ user_message \in Texts
    /\ conversation_history \in Histories

\* a turn up to the model's first reply
NextPrompt ==
    \/ ConfigurationError
    \/ StartTurn
    \/ ModelFails
    \/ ModelAnswers(Contents)

SpecPrompt == InitPrompt /\ [][NextPrompt]_vars

\* C33: the list sent to the first model call is one system message, then
\* the last min(10, n) of the n prior turns in their order, then the new user
\* message as the last element: it has min(10, n) + 2 elements, so no older
\* turn is in it.
C33_FirstCallMessages ==
    (pc \in {"loop", "done"} /\ outcome # "unconfigured")
    => LET n == Len(conversation_history)
           k == IF n < 10 THEN n ELSE 10
       IN /\ Len(prompt) = k + 2
          /\ prompt[1].role = "system"
          /\ \A i \in 1..k : prompt[1 + i] = conversation_history[n - k + i]
          /\ prompt[k + 2].role = "user"
          /\ prompt[k + 2].content = user_message

\* a turn has started on a history of twelve turns: the list has twelve
\* elements and the third turn of the history is the first one sent
C33_Witness ==
    /\ pc = "loop"
    /\ Len(conversation_history) = 12
    /\ Len(prompt) = 12
    /\ prompt[2] = conversation_history[3]
    /\ prompt[12].content = user_message

(***************************************************************************)
(* An update that fails.                                                   *)
(***************************************************************************)
\* C34: a failed update is atomic: when update_checkout_session fails with
\* NotFound on a stored session, because one of the requested line items
\* names a product the catalog does not have, the stored session keeps the
\* line items, the discounts and the buyer it had before the call.
C34_FailedUpdateIsAtomic ==
    [][(/\ http'.op = "update"
        /\ requests' = requests + 1
        /\ http'.raised
        /\ http'.error = "NotFound"
        /\ http'.id \in DOMAIN sessions)
       => /\ sessions'[http'.id].line_items = sessions[http'.id].line_items
          /\ sessions'[http'.id].codes = sessions[http'.id].codes
          /\ sessions'[http'.id].applied = sessions[http'.id].applied
          /\ sessions'[http'.id].buyer = sessions[http'.id].buyer]_vars

(***************************************************************************)
(* What a completed purchase holds.                                        *)
(***************************************************************************)
\* C35: when complete_checkout succeeds, the session that becomes completed
\* has line items that correspond one to one, in product id and quantity, to
\* the cart entries held at that moment, whatever dispatcher operations came
\* before (add_to_cart between create_checkout and complete_checkout among
\* them).
C35_CompletedMatchesCart ==
    (last.function = "complete_checkout" /\ last.result.success)
    => LET session == last.result.store[last.checkout_session[1].id]
       IN /\ session.status = "completed"
          /\ same_items(session.line_items, last.cart)

\* the sessions of a store that carry a discount applied to the cart: what a
\* successful apply_discount on this cart has left, the cart being unchanged
\* since (the cart of a purchase only grows until it is cleared)
discounted_for(store, cart_) ==
    {id \in DOMAIN store :
        /\ store[id].applied # << >>
        /\ same_items(store[id].line_items, cart_)}

\* C36: a discount survives checkout: if apply_discount succeeded with a
\* valid code and the cart has not changed since, the session that a later
\* complete_checkout completes carries that discount in its applied list and
\* in its total, also when create_checkout was called in between.
C36_DiscountSurvivesCheckout ==
    (last.function = "complete_checkout" /\ last.result.success)
    => \A id \in discounted_for(last.store, last.cart) :
          LET session == last.result.store[last.checkout_session[1].id]
          IN /\ session.status = "completed"
             /\ session.applied = last.store[id].applied
             /\ calculate_totals(session).total =
                   Max(0, LineItemsSubtotal(session.line_items)
                          - last.store[id].applied[1].amount)

(***************************************************************************)
(* A completed session under later requests.                               *)
(***************************************************************************)
\* C37: a completed session is frozen: once a stored session has the status
\* completed, no later request changes its line items, its discounts or its
\* buyer.
C37_CompletedIsFrozen ==
    [][\A id \in DOMAIN sessions :
          sessions[id].status = "completed"
          => /\ sessions'[id].line_items = sessions[id].line_items
             /\ sessions'[id].codes = sessions[id].codes
             /\ sessions'[id].applied = sessions[id].applied
             /\ sessions'[id].buyer = sessions[id].buyer]_vars

(***************************************************************************)
(* The applied discount and the line items it was computed from.           *)
(***************************************************************************)
\* C38: the applied discount is consistent with the current line items: in
\* every reachable state of a stored session whose applied discount is a
\* percentage code (10OFF or SAVE20), the applied amount is
\* floor(current subtotal * pct / 100), whatever creates, updates and
\* discounts came before.
C38_AppliedAmountIsCurrent ==
    \A id \in DOMAIN sessions :
       \A k \in 1..Len(sessions[id].applied) :
          LET applied == sessions[id].applied[k]
              subtotal == SumSeq([i \in 1..Len(sessions[id].line_items) |->
                                     sessions[id].line_items[i].subtotal])
          IN /\ applied.code = "10OFF" => applied.amount = FloorDiv(subtotal * 10, 100)
             /\ applied.code = "SAVE20" => applied.amount = FloorDiv(subtotal * 20, 100)

(***************************************************************************)
(* An update whose list of line items is empty.                            *)
(***************************************************************************)
\* PUT /checkout-sessions/{session_id} with "line_items": []
HttpUpdateEmpty ==
    /\ requests < MaxRequests
    /\ \E session_id \in RequestIds,
          discounts \in {None} \cup {Some(c) : c \in RequestCodes},
          buyer \in RequestBuyers :
          LET r == update_checkout_session(sessions, session_id, Some(<< >>),
                                           discounts, buyer)
          IN /\ sessions' = r.store
             /\ http' = BodyResponse("update", session_id, discounts, buyer, r)
    /\ requests' = requests + 1
    /\ UNCHANGED << chat_vars, handler >>

NextEmptyItems ==
    \/ HttpCreate
    \/ HttpUpdateEmpty

SpecEmptyItems == InitStore /\ [][NextEmptyItems]_vars

\* C39: update_checkout_session called with an empty list of line items
\* treats it as not given: the update succeeds on a stored session, the
\* session's line items are left as they were (they are not replaced by an
\* empty set), and the discounts and the buyer given in the same request are
\* still applied: the buyer is the one given, and a valid code is applied
\* with the amount the unchanged line items give.
C39_EmptyLineItemsIsNotGiven ==
    /\ [](\A id \in DOMAIN sessions :
            \A discounts \in {None} \cup {Some(c) : c \in RequestCodes} :
               \A buyer \in RequestBuyers :
                  update_checkout_session(sessions, id, Some(<< >>), discounts, buyer)
                     = update_checkout_session(sessions, id, None, discounts, buyer))
    /\ [][(http'.op = "update" /\ requests' = requests + 1 /\ http'.status # None)
          => /\ ~http'.raised
             /\ sessions'[http'.id].line_items = sessions[http'.id].line_items
             /\ http'.buyer # None => sessions'[http'.id].buyer = http'.buyer
             /\ http'.buyer = None => sessions'[http'.id].buyer = sessions[http'.id].buyer
             /\ (http'.discounts # None /\ valid_codes(http'.discounts[1]) # << >>)
                   => LET valid == valid_codes(http'.discounts[1])
                          code == valid[Len(valid)]
                      IN sessions'[http'.id].applied =
                            << [code |-> code,
                                amount |-> discount_amount(
                                    code,
                                    LineItemsSubtotal(sessions[http'.id].line_items))] >>
             /\ (http'.discounts = None \/ valid_codes(http'.discounts[1]) = << >>)
                   => sessions'[http'.id].applied = sessions[http'.id].applied
             /\ \A other \in DOMAIN sessions \ {http'.id} :
                   sessions'[other] = sessions[other]]_vars

\* an update with an empty list of line items, a code and a buyer has been
\* served on a session of two pieces of P1: the line items are there, the
\* code is applied to them and the buyer is set
C39_Witness ==
    /\ http.op = "update"
    /\ ~http.raised
    /\ http.discounts = Some(<< "10OFF" >>)
    /\ http.buyer = Some("Alice")
    /\ sessions[http.id].line_items = requested_line_items(<< LineItem("P1", 2) >>)
    /\ sessions[http.id].applied = << [code |-> "10OFF", amount |-> 200] >>
    /\ sessions[http.id].buyer = Some("Alice")

(***************************************************************************)
(* The caller's cart.                                                      *)
(***************************************************************************)
\* C40: process_chat_message leaves the cart passed in by the caller
\* unchanged, entries and quantities alike, whatever tool calls the turn
\* runs (add_to_cart of a product already in the cart among them): while a
\* turn runs, no step changes the caller's cart.
C40_CallerCartUnchanged ==
    [][(pc \in {"loop", "tools"}) => (cart' = cart)]_vars

====
